---------------------------- MODULE Spec2Model ----------------------------
(***************************************************************************)
(* Model of the detection-and-aggregation pipeline of the AI usage         *)
(* measurement framework: the pattern catalog and commit scanner           *)
(* (patterns.py), the repository walker (analyzers/git_analyzer.py) and    *)
(* the multi-repository aggregator (analyzers/github_analyzer.py).         *)
(*                                                                         *)
(* Text is a sequence of one-character strings, so that the regular        *)
(* expressions of the catalog are matched against it the way re.search     *)
(* matches them.  Scores are integers in units of 0.0001 and percentages   *)
(* integers in units of 0.01.                                              *)
(***************************************************************************)
EXTENDS Integers, Sequences, FiniteSets, TLC

(***************************************************************************)
(* Bounds of the model.                                                    *)
(***************************************************************************)
MaxPatterns == 2
MaxTools == 3
MaxCommits == 2
MaxRepos == 3
MaxCalls == 2
MaxPages == 3
MaxWords == 3
MaxOrder == 4
MaxLevels == 3

(***************************************************************************)
(* re: the fragment of Python's regular expressions the catalog uses.      *)
(* A compiled expression is a sequence of atoms; an atom accepts one       *)
(* character (a literal, \s, [\s-] or .) and may carry a star.             *)
(***************************************************************************)
Whitespace == {" ", "\t", "\n", "\r"}

SpaceDashClass == <<"[", "\\", "s", "-", "]">>

AtomAt(src, i) ==
    IF src[i] = "\\" /\ i < Len(src) /\ src[i + 1] = "s"
      THEN [kind |-> "space", char |-> "", width |-> 2]
    ELSE IF i + 4 <= Len(src) /\ SubSeq(src, i, i + 4) = SpaceDashClass
      THEN [kind |-> "space_dash", char |-> "", width |-> 5]
    ELSE IF src[i] = "."
      THEN [kind |-> "any", char |-> "", width |-> 1]
    ELSE [kind |-> "lit", char |-> src[i], width |-> 1]

RECURSIVE re_compile_from(_, _)
re_compile_from(src, i) ==
    IF i > Len(src) THEN <<>>
    ELSE LET a == AtomAt(src, i)
             star == i + a.width <= Len(src) /\ src[i + a.width] = "*"
             next == i + a.width + (IF star THEN 1 ELSE 0)
         IN  <<[kind |-> a.kind, char |-> a.char, star |-> star]>>
                 \o re_compile_from(src, next)

re_compile(src) == re_compile_from(src, 1)

Accepts(atom, c) ==
    CASE atom.kind = "lit" -> c = atom.char
      [] atom.kind = "space" -> c \in Whitespace
      [] atom.kind = "space_dash" -> c \in Whitespace \cup {"-"}
      [] atom.kind = "any" -> c # "\n"

RECURSIVE re_match_here(_, _, _, _)
re_match_here(prog, i, text, j) ==
    IF i > Len(prog) THEN TRUE
    ELSE IF prog[i].star
      THEN \/ re_match_here(prog, i + 1, text, j)
           \/ /\ j <= Len(text)
              /\ Accepts(prog[i], text[j])
              /\ re_match_here(prog, i, text, j + 1)
    ELSE /\ j <= Len(text)
         /\ Accepts(prog[i], text[j])
         /\ re_match_here(prog, i + 1, text, j + 1)

re_search(pattern, text) ==
    LET prog == re_compile(pattern)
    IN  \E start \in 1..(Len(text) + 1) : re_match_here(prog, 1, text, start)

UpperToLower ==
    [A |-> "a", B |-> "b", C |-> "c", D |-> "d", E |-> "e", F |-> "f",
     G |-> "g", H |-> "h", I |-> "i", J |-> "j", K |-> "k", L |-> "l",
     M |-> "m", N |-> "n", O |-> "o", P |-> "p", Q |-> "q", R |-> "r",
     S |-> "s", T |-> "t", U |-> "u", V |-> "v", W |-> "w", X |-> "x",
     Y |-> "y", Z |-> "z"]

lower(text) ==
    [k \in 1..Len(text) |->
        IF text[k] \in DOMAIN UpperToLower THEN UpperToLower[text[k]]
        ELSE text[k]]

(***************************************************************************)
(* The pattern catalog (patterns.py).  Weights are in units of 0.0001.     *)
(***************************************************************************)
rx_copilot == <<"c","o","p","i","l","o","t">>
rx_github_copilot == <<"g","i","t","h","u","b","\\","s","*","c","o","p","i","l","o","t">>
rx_co_authored_by_any_copilot == <<"c","o","-","a","u","t","h","o","r","e","d","-","b","y",":",".","*","c","o","p","i","l","o","t">>
rx_generated_by_copilot == <<"g","e","n","e","r","a","t","e","d","\\","s","*","b","y","\\","s","*","c","o","p","i","l","o","t">>
rx_windsurf == <<"w","i","n","d","s","u","r","f">>
rx_codeium == <<"c","o","d","e","i","u","m">>
rx_cascade == <<"c","a","s","c","a","d","e">>
rx_ai_generated == <<"a","i","[","\\","s","-","]","*","g","e","n","e","r","a","t","e","d">>
rx_ai_assisted == <<"a","i","[","\\","s","-","]","*","a","s","s","i","s","t","e","d">>
rx_auto_generated == <<"a","u","t","o","[","\\","s","-","]","*","g","e","n","e","r","a","t","e","d">>
rx_machine_generated == <<"m","a","c","h","i","n","e","[","\\","s","-","]","*","g","e","n","e","r","a","t","e","d">>
rx_llm_generated == <<"l","l","m","[","\\","s","-","]","*","g","e","n","e","r","a","t","e","d">>
rx_gpt_generated == <<"g","p","t","[","\\","s","-","]","*","g","e","n","e","r","a","t","e","d">>
rx_claude == <<"c","l","a","u","d","e">>
rx_chatgpt == <<"c","h","a","t","g","p","t">>
rx_openai == <<"o","p","e","n","a","i">>
rx_anthropic == <<"a","n","t","h","r","o","p","i","c">>
rx_devin == <<"d","e","v","i","n">>
rx_cursor == <<"c","u","r","s","o","r">>
rx_tabnine == <<"t","a","b","n","i","n","e">>
rx_kite == <<"k","i","t","e">>
rx_codex == <<"c","o","d","e","x">>
rx_amazon_q == <<"a","m","a","z","o","n","\\","s","*","q">>
rx_cody == <<"c","o","d","y">>
rx_refactor_any_ai == <<"r","e","f","a","c","t","o","r",".","*","a","i">>
rx_fix_any_suggested_by == <<"f","i","x",".","*","s","u","g","g","e","s","t","e","d","\\","s","*","b","y">>
rx_implement_any_generated == <<"i","m","p","l","e","m","e","n","t",".","*","g","e","n","e","r","a","t","e","d">>
rx_gpt_4 == <<"g","p","t","-","4">>
rx_gpt_3 == <<"g","p","t","-","3">>

AI_COMMIT_PATTERNS ==
    << rx_copilot, rx_github_copilot, rx_co_authored_by_any_copilot, rx_generated_by_copilot,
       rx_windsurf, rx_codeium, rx_cascade, rx_ai_generated, rx_ai_assisted,
       rx_auto_generated, rx_machine_generated, rx_llm_generated, rx_gpt_generated,
       rx_claude, rx_chatgpt, rx_openai, rx_anthropic, rx_devin, rx_cursor,
       rx_tabnine, rx_kite, rx_codex, rx_amazon_q, rx_cody, rx_refactor_any_ai,
       rx_fix_any_suggested_by, rx_implement_any_generated >>

TOOL_PATTERNS ==
    << [name |-> "GitHub Copilot", patterns |-> <<rx_copilot, rx_github_copilot, rx_co_authored_by_any_copilot>>, weight |-> 9000],
       [name |-> "Windsurf", patterns |-> <<rx_windsurf>>, weight |-> 9000],
       [name |-> "Codeium", patterns |-> <<rx_codeium>>, weight |-> 9000],
       [name |-> "Cascade", patterns |-> <<rx_cascade>>, weight |-> 7000],
       [name |-> "Cursor", patterns |-> <<rx_cursor>>, weight |-> 8000],
       [name |-> "ChatGPT", patterns |-> <<rx_chatgpt, rx_gpt_4, rx_gpt_3>>, weight |-> 8500],
       [name |-> "Claude", patterns |-> <<rx_claude, rx_anthropic>>, weight |-> 8500],
       [name |-> "Devin", patterns |-> <<rx_devin>>, weight |-> 9000],
       [name |-> "Amazon Q", patterns |-> <<rx_amazon_q>>, weight |-> 9000],
       [name |-> "Tabnine", patterns |-> <<rx_tabnine>>, weight |-> 9000],
       [name |-> "Cody", patterns |-> <<rx_cody>>, weight |-> 8000] >>

GENERIC_AI_PATTERNS ==
    << [name |-> "ai-generated", patterns |-> <<rx_ai_generated>>, weight |-> 5000],
       [name |-> "ai-assisted", patterns |-> <<rx_ai_assisted>>, weight |-> 5000],
       [name |-> "auto-generated", patterns |-> <<rx_auto_generated>>, weight |-> 3000],
       [name |-> "machine-generated", patterns |-> <<rx_machine_generated>>, weight |-> 4000],
       [name |-> "llm-generated", patterns |-> <<rx_llm_generated>>, weight |-> 6000] >>


ToolNames == {TOOL_PATTERNS[k].name : k \in 1..Len(TOOL_PATTERNS)}

ToolConfig(tool) ==
    CHOOSE cfg \in {TOOL_PATTERNS[k] : k \in 1..Len(TOOL_PATTERNS)} :
        cfg.name = tool

(***************************************************************************)
(* Commit scanner (patterns.py).                                           *)
(***************************************************************************)
Contains(xs, x) == \E k \in 1..Len(xs) : xs[k] = x

AnyPatternMatches(patterns, text) ==
    \E k \in 1..Len(patterns) : re_search(patterns[k], text)

RECURSIVE detect_from(_, _)
detect_from(k, text_lower) ==
    IF k > Len(AI_COMMIT_PATTERNS) THEN <<>>
    ELSE (IF re_search(AI_COMMIT_PATTERNS[k], text_lower)
            THEN <<AI_COMMIT_PATTERNS[k]>> ELSE <<>>)
         \o detect_from(k + 1, text_lower)

detect_ai_patterns(text) == detect_from(1, lower(text))

\* a tool appended for each of its expressions that matches
RECURSIVE matches_of(_, _, _)
matches_of(name, patterns, text_lower) ==
    IF patterns = <<>> THEN <<>>
    ELSE (IF re_search(Head(patterns), text_lower) THEN <<name>> ELSE <<>>)
         \o matches_of(name, Tail(patterns), text_lower)

RECURSIVE extract_from_every_match(_, _, _)
extract_from_every_match(k, text_lower, tools) ==
    IF k > Len(TOOL_PATTERNS) THEN tools
    ELSE extract_from_every_match(
             k + 1, text_lower,
             tools \o matches_of(TOOL_PATTERNS[k].name,
                                 TOOL_PATTERNS[k].patterns, text_lower))

RECURSIVE extract_from(_, _, _)
extract_from(k, text_lower, tools) ==
    IF k > Len(TOOL_PATTERNS) THEN tools
    ELSE LET cfg == TOOL_PATTERNS[k]
         IN  extract_from(k + 1, text_lower,
                 IF AnyPatternMatches(cfg.patterns, text_lower)
                    /\ ~Contains(tools, cfg.name)
                   THEN Append(tools, cfg.name)
                   ELSE tools)

extract_ai_tools(text) == extract_from(1, lower(text), <<>>)

(***************************************************************************)
(* Confidence scorer (patterns.py).  The code adds doubles; the model adds *)
(* the decimal values in units of 0.0001.  The two agree, score and level, *)
(* on every scorer call of the model.  They differ where a double sum      *)
(* falls just under a threshold: 0.35 + 0.05 (Cascade and a large          *)
(* addition) is 0.39999999999999997 in the code, which is low, not medium. *)
(* No input of these calls names Cascade.  The scorer in the arithmetic of *)
(* doubles, float_confidence_score, follows this one.                      *)
(***************************************************************************)
Min(a, b) == IF a <= b THEN a ELSE b

\* the early return dropped
no_patterns_skipped(patterns_matched) == FALSE

no_patterns(patterns_matched) == patterns_matched = <<>>

\* the tool weight added whole
tool_contribution_unscaled(tool) ==
    IF tool \in ToolNames THEN ToolConfig(tool).weight ELSE 0

tool_contribution(tool) ==
    IF tool \in ToolNames THEN (ToolConfig(tool).weight * 5) \div 10 ELSE 0

RECURSIVE tools_score(_)
tools_score(tools_detected) ==
    IF tools_detected = <<>> THEN 0
    ELSE tool_contribution(Head(tools_detected))
             + tools_score(Tail(tools_detected))

RECURSIVE generic_from(_, _)
generic_from(k, pattern) ==
    IF k > Len(GENERIC_AI_PATTERNS) THEN 0
    ELSE LET cfg == GENERIC_AI_PATTERNS[k]
         IN  (IF AnyPatternMatches(cfg.patterns, pattern)
                THEN (cfg.weight * 3) \div 10 ELSE 0)
             + generic_from(k + 1, pattern)

generic_contribution(pattern) == generic_from(1, pattern)

\* generic_contribution, evaluated once for each string that is passed
lit_ai_generated == <<"a","i","-","g","e","n","e","r","a","t","e","d">>

PatternStrings ==
    {AI_COMMIT_PATTERNS[k] : k \in 1..Len(AI_COMMIT_PATTERNS)}
        \cup {lit_ai_generated}

generic_of == [pattern \in PatternStrings |-> generic_contribution(pattern)]

RECURSIVE generic_score(_)
generic_score(patterns_matched) ==
    IF patterns_matched = <<>> THEN 0
    ELSE generic_of[Head(patterns_matched)]
             + generic_score(Tail(patterns_matched))

\* the bonus given to repositories without an agent file
agents_bonus_inverted(has_agents_file) == IF has_agents_file THEN 0 ELSE 1000

agents_bonus(has_agents_file) == IF has_agents_file THEN 1000 ELSE 0

large_addition(lines_added, lines_deleted) ==
    lines_added > 100 /\ lines_deleted < 10

size_bonus(lines_added, lines_deleted) ==
    IF large_addition(lines_added, lines_deleted) THEN 500 ELSE 0

\* the cap dropped
cap_score_missing(score) == score

cap_score(score) == Min(score, 10000)

\* strict comparisons at the thresholds
confidence_level_strict(score) ==
    IF score > 7000 THEN "high"
    ELSE IF score > 4000 THEN "medium"
    ELSE IF score > 0 THEN "low"
    ELSE "none"

confidence_level(score) ==
    IF score >= 7000 THEN "high"
    ELSE IF score >= 4000 THEN "medium"
    ELSE IF score > 0 THEN "low"
    ELSE "none"

calculate_confidence_score(patterns_matched, tools_detected, has_agents_file, lines_added, lines_deleted) ==
    IF no_patterns(patterns_matched)
      THEN [score |-> 0, level |-> "none"]
    ELSE LET score == cap_score(tools_score(tools_detected)
                                + generic_score(patterns_matched)
                                + agents_bonus(has_agents_file)
                                + size_bonus(lines_added, lines_deleted))
         IN  [score |-> score, level |-> confidence_level(score)]

(***************************************************************************)
(* The scorer in the arithmetic of the code: score is a Python float, an   *)
(* IEEE 754 double, and every += rounds its sum to 53 significant bits,    *)
(* ties to even.  A double d with 0 <= d < 4 that is a multiple of 2^-58   *)
(* is the pair <<hi, lo>> with d = (hi * 2^29 + lo) / 2^58 and             *)
(* 0 <= lo < 2^29; the constants of the scorer and all their sums are such *)
(* doubles.                                                                *)
(***************************************************************************)
TwoTo29 == 536870912

\* the double that the code computes for weight * 0.5, weight * 0.3 and for
\* its literals, by its value in units of 0.0001
Double ==
    (0 :> <<0, 0>>)
    @@ (500 :> <<26843545, 322122548>>)
    @@ (900 :> <<48318382, 42949672>>)
    @@ (1000 :> <<53687091, 107374184>>)
    @@ (1200 :> <<64424509, 236223200>>)
    @@ (1500 :> <<80530636, 429496728>>)
    @@ (1800 :> <<96636764, 85899344>>)
    @@ (3500 :> <<187904819, 107374176>>)
    @@ (4000 :> <<214748364, 429496736>>)
    @@ (4250 :> <<228170137, 322122544>>)
    @@ (4500 :> <<241591910, 214748368>>)
    @@ (7000 :> <<375809638, 214748352>>)
    @@ (10000 :> <<536870912, 0>>)

\* the spacing of the doubles around a value, in units of 2^-58
ulp(hi) ==
    IF hi >= 1073741824 THEN 128
    ELSE IF hi >= 536870912 THEN 64
    ELSE IF hi >= 268435456 THEN 32
    ELSE IF hi >= 134217728 THEN 16
    ELSE IF hi >= 67108864 THEN 8
    ELSE IF hi >= 33554432 THEN 4
    ELSE IF hi >= 16777216 THEN 2
    ELSE 1

\* a + b of two doubles: the exact sum rounded to the nearest double
float_add(a, b) ==
    LET lo == (a[2] + b[2]) % TwoTo29
        hi == a[1] + b[1] + ((a[2] + b[2]) \div TwoTo29)
        q == ulp(hi)
        r == lo % q
        down == lo - r
        up == 2 * r > q \/ (2 * r = q /\ (down \div q) % 2 = 1)
        rounded == IF up THEN down + q ELSE down
    IN  IF rounded = TwoTo29 THEN <<hi + 1, 0>> ELSE <<hi, rounded>>

\* a >= b
float_ge(a, b) == a[1] > b[1] \/ (a[1] = b[1] /\ a[2] >= b[2])

\* the amounts that the generic loop adds for one entry of the match list,
\* one for each category that matches it, in catalog order
RECURSIVE generic_weights_from(_, _)
generic_weights_from(k, pattern) ==
    IF k > Len(GENERIC_AI_PATTERNS) THEN <<>>
    ELSE LET cfg == GENERIC_AI_PATTERNS[k]
         IN  (IF AnyPatternMatches(cfg.patterns, pattern)
                THEN <<(cfg.weight * 3) \div 10>> ELSE <<>>)
             \o generic_weights_from(k + 1, pattern)

lit_auto_generated ==
    <<"a","u","t","o","-","g","e","n","e","r","a","t","e","d">>
lit_llm_generated ==
    <<"l","l","m","-","g","e","n","e","r","a","t","e","d">>

OrderPatterns ==
    {rx_copilot, lit_ai_generated, lit_auto_generated, lit_llm_generated}

generic_weights_of ==
    [pattern \in OrderPatterns \cup PatternStrings |->
        generic_weights_from(1, pattern)]

\* score += amount, for each amount in turn
RECURSIVE float_add_all(_, _)
float_add_all(score, amounts) ==
    IF amounts = <<>> THEN score
    ELSE float_add_all(float_add(score, Double[Head(amounts)]),
                       Tail(amounts))

\* the loop over tools_detected
RECURSIVE float_tools_score(_, _)
float_tools_score(score, tools_detected) ==
    IF tools_detected = <<>> THEN score
    ELSE float_tools_score(
             IF Head(tools_detected) \in ToolNames
               THEN float_add(score,
                              Double[tool_contribution(Head(tools_detected))])
               ELSE score,
             Tail(tools_detected))

\* the loop over patterns_matched
RECURSIVE float_generic_score(_, _)
float_generic_score(score, patterns_matched) ==
    IF patterns_matched = <<>> THEN score
    ELSE float_generic_score(
             float_add_all(score, generic_weights_of[Head(patterns_matched)]),
             Tail(patterns_matched))

float_level(score) ==
    IF float_ge(score, Double[7000]) THEN "high"
    ELSE IF float_ge(score, Double[4000]) THEN "medium"
    ELSE IF score # Double[0] THEN "low"
    ELSE "none"

\* calculate_confidence_score with the score as the double it is
float_confidence_score(patterns_matched, tools_detected, has_agents_file, lines_added, lines_deleted) ==
    IF no_patterns(patterns_matched)
      THEN [score |-> Double[0], level |-> "none"]
    ELSE LET tools == float_tools_score(Double[0], tools_detected)
             generic == float_generic_score(tools, patterns_matched)
             agents ==
                 float_add(generic, Double[agents_bonus(has_agents_file)])
             size ==
                 float_add(agents,
                           Double[size_bonus(lines_added, lines_deleted)])
             score == IF float_ge(size, Double[10000]) THEN Double[10000]
                      ELSE size
         IN  [score |-> score, level |-> float_level(score)]

\* a > b
float_gt(a, b) == a[1] > b[1] \/ (a[1] = b[1] /\ a[2] > b[2])

\* for an odd multiple of 0.05 below 4, in units of 0.0001: the least double
\* that is not below it, and whether that double is the value itself
TieDouble ==
    (500 :> [least |-> <<26843545, 322122548>>, exact |-> FALSE])
    @@ (1500 :> [least |-> <<80530636, 429496736>>, exact |-> FALSE])
    @@ (2500 :> [least |-> <<134217728, 0>>, exact |-> TRUE])
    @@ (3500 :> [least |-> <<187904819, 107374192>>, exact |-> FALSE])
    @@ (4500 :> [least |-> <<241591910, 214748368>>, exact |-> FALSE])
    @@ (5500 :> [least |-> <<295279001, 322122560>>, exact |-> FALSE])
    @@ (6500 :> [least |-> <<348966092, 429496736>>, exact |-> FALSE])
    @@ (7500 :> [least |-> <<402653184, 0>>, exact |-> TRUE])
    @@ (8500 :> [least |-> <<456340275, 107374208>>, exact |-> FALSE])
    @@ (9500 :> [least |-> <<510027366, 214748384>>, exact |-> FALSE])
    @@ (10500 :> [least |-> <<563714457, 322122560>>, exact |-> FALSE])
    @@ (11500 :> [least |-> <<617401548, 429496768>>, exact |-> FALSE])
    @@ (12500 :> [least |-> <<671088640, 0>>, exact |-> TRUE])
    @@ (13500 :> [least |-> <<724775731, 107374208>>, exact |-> FALSE])
    @@ (14500 :> [least |-> <<778462822, 214748416>>, exact |-> FALSE])
    @@ (15500 :> [least |-> <<832149913, 322122560>>, exact |-> FALSE])
    @@ (16500 :> [least |-> <<885837004, 429496768>>, exact |-> FALSE])
    @@ (17500 :> [least |-> <<939524096, 0>>, exact |-> TRUE])
    @@ (18500 :> [least |-> <<993211187, 107374208>>, exact |-> FALSE])
    @@ (19500 :> [least |-> <<1046898278, 214748416>>, exact |-> FALSE])
    @@ (20500 :> [least |-> <<1100585369, 322122624>>, exact |-> FALSE])
    @@ (21500 :> [least |-> <<1154272460, 429496832>>, exact |-> FALSE])
    @@ (22500 :> [least |-> <<1207959552, 0>>, exact |-> TRUE])
    @@ (23500 :> [least |-> <<1261646643, 107374208>>, exact |-> FALSE])
    @@ (24500 :> [least |-> <<1315333734, 214748416>>, exact |-> FALSE])
    @@ (25500 :> [least |-> <<1369020825, 322122624>>, exact |-> FALSE])
    @@ (26500 :> [least |-> <<1422707916, 429496832>>, exact |-> FALSE])
    @@ (27500 :> [least |-> <<1476395008, 0>>, exact |-> TRUE])
    @@ (28500 :> [least |-> <<1530082099, 107374208>>, exact |-> FALSE])
    @@ (29500 :> [least |-> <<1583769190, 214748416>>, exact |-> FALSE])
    @@ (30500 :> [least |-> <<1637456281, 322122624>>, exact |-> FALSE])
    @@ (31500 :> [least |-> <<1691143372, 429496832>>, exact |-> FALSE])
    @@ (32500 :> [least |-> <<1744830464, 0>>, exact |-> TRUE])
    @@ (33500 :> [least |-> <<1798517555, 107374208>>, exact |-> FALSE])
    @@ (34500 :> [least |-> <<1852204646, 214748416>>, exact |-> FALSE])
    @@ (35500 :> [least |-> <<1905891737, 322122624>>, exact |-> FALSE])
    @@ (36500 :> [least |-> <<1959578828, 429496832>>, exact |-> FALSE])
    @@ (37500 :> [least |-> <<2013265920, 0>>, exact |-> TRUE])
    @@ (38500 :> [least |-> <<2066953011, 107374208>>, exact |-> FALSE])
    @@ (39500 :> [least |-> <<2120640102, 214748416>>, exact |-> FALSE])

(***************************************************************************)
(* State.                                                                  *)
(*   mode     which entry point is exercised: "score" (a caller of         *)
(*            calculate_confidence_score), "scan" (a caller of             *)
(*            extract_ai_tools), "walk" (a user of one GitAnalyzer),       *)
(*            "batch" (GitHubAnalyzer.analyze_repos), "org" (a user of one *)
(*            GitHubAnalyzer) or "order" (a caller of                      *)
(*            calculate_confidence_score that reorders its lists)          *)
(*   sc, out  arguments and result of the last scorer call                 *)
(*   scan     text and result of the last extract_ai_tools call            *)
(*   fout     result of the last scorer call as the code computes it, the  *)
(*            score a double (mode "order": a caller that reorders the     *)
(*            match lists between calls)                                   *)
(*   world    the repositories that exist: path/URL -> history and tree    *)
(*   an       fields of the GitAnalyzer instance in use                    *)
(*   fs       temporary directories that exist; made counts mkdtemp calls  *)
(*   cloned   the URLs handed to Repo.clone_from so far, oldest first       *)
(*   pc       position of analyze(); calls counts analyze() calls          *)
(*   loc      local variables of the analyze() call                        *)
(*   result   value returned by the last analyze(): <<>> or <<r>>          *)
(*   error    message of the exception the last analyze() raised, or ""    *)
(*   bpc, br  position and local variables of analyze_repos                *)
(*   multi    value returned by analyze_repos: <<>> or <<m>>               *)
(*   gh       the GitHubAnalyzer instance, the call made on it, the local  *)
(*            variables of _paginate, the requests sent so far and the     *)
(*            collections the GitHub API serves                            *)
(***************************************************************************)
VARIABLES mode, sc, out, world, an, fs, made, cloned, pc, calls, loc, result,
          error, bpc, br, multi, gh, scan, fout

vars == <<mode, sc, out, world, an, fs, made, cloned, pc, calls, loc, result,
          error, bpc, br, multi, gh, scan, fout>>

scoreVars == <<sc, out, scan, fout>>
walkVars == <<an, fs, made, cloned, pc, calls, loc, result, error>>
batchVars == <<bpc, br, multi, gh>>

(***************************************************************************)
(* Python helpers: dict with insertion order, rounding, str.startswith.    *)
(***************************************************************************)
Range(xs) == {xs[k] : k \in 1..Len(xs)}

RECURSIVE SumSeq(_)
SumSeq(xs) == IF xs = <<>> THEN 0 ELSE Head(xs) + SumSeq(Tail(xs))

DictKeys(d) == [k \in 1..Len(d) |-> d[k].key]

DictHas(d, key) == \E k \in 1..Len(d) : d[k].key = key

DictGet(d, key, default) ==
    IF DictHas(d, key)
      THEN d[CHOOSE k \in 1..Len(d) : d[k].key = key].value
      ELSE default

DictPut(d, key, value) ==
    IF DictHas(d, key)
      THEN [k \in 1..Len(d) |->
               IF d[k].key = key THEN [key |-> key, value |-> value] ELSE d[k]]
      ELSE Append(d, [key |-> key, value |-> value])

\* round(n / d) to the nearest integer, ties to even, for naturals n, d > 0
RoundDiv(n, d) ==
    LET q == n \div d
        r == n % d
    IN  IF 2 * r > d \/ (2 * r = d /\ q % 2 = 1) THEN q + 1 ELSE q

\* the ratio left as a fraction: round(ai / total, 2)
percentage_fraction(ai, total) ==
    IF total > 0 THEN RoundDiv(ai * 100, total) ELSE 0

\* round(ai / total * 100, 2) if total > 0 else 0, in units of 0.01
percentage(ai, total) ==
    IF total > 0 THEN RoundDiv(ai * 10000, total) ELSE 0

startswith(text, prefix) ==
    Len(text) >= Len(prefix) /\ SubSeq(text, 1, Len(prefix)) = prefix

(***************************************************************************)
(* Inputs of the scorer calls.                                             *)
(***************************************************************************)
ScorePatterns == {rx_copilot, rx_ai_generated, lit_ai_generated}
ScoreTools == {"GitHub Copilot", "Cursor", "Unknown"}
LinesAdded == {100, 101}
LinesDeleted == {9, 10}

SeqsUpTo(S, n) == UNION {[1..k -> S] : k \in 0..n}

ScoreInputs ==
    [patterns_matched : SeqsUpTo(ScorePatterns, MaxPatterns),
     tools_detected : SeqsUpTo(ScoreTools, MaxTools),
     has_agents_file : BOOLEAN,
     lines_added : LinesAdded,
     lines_deleted : LinesDeleted]

Score(args) ==
    calculate_confidence_score(args.patterns_matched, args.tools_detected,
                               args.has_agents_file, args.lines_added,
                               args.lines_deleted)

NoScore == [score |-> 0, level |-> "none"]
NoArgs == [patterns_matched |-> <<>>, tools_detected |-> <<>>,
           has_agents_file |-> FALSE, lines_added |-> 0, lines_deleted |-> 0]

(***************************************************************************)
(* The repositories of the model: commits, agent files, paths.             *)
(***************************************************************************)
msg_plain == <<"f","i","x"," ","t","y","p","o">>
msg_copilot ==
    <<"g","e","n","e","r","a","t","e","d"," ","b","y"," ",
      "c","o","p","i","l","o","t">>
msg_gpt4 == <<"u","s","e"," ","g","p","t","-","4">>
msg_ai_generated ==
    <<"a","i","-","g","e","n","e","r","a","t","e","d"," ","f","i","x">>
msg_three_tools ==
    <<"c","o","p","i","l","o","t"," ","c","u","r","s","o","r"," ",
      "c","l","a","u","d","e">>

Messages == {msg_plain, msg_copilot, msg_gpt4, msg_ai_generated,
             msg_three_tools}

alice == [name |-> "alice", email |-> "alice@example.com"]
bob == [name |-> "bob", email |-> "bob@example.com"]

dec_2023 == [year |-> 2023, month |-> 12]
jan_2024 == [year |-> 2024, month |-> 1]

\* who committed when: two authors, two months, newest first or not
AuthorDates == {<<alice, jan_2024>>, <<alice, dec_2023>>, <<bob, jan_2024>>}

\* commit.stats.total of a commit, <<>> when reading the stats raises
large_stats == [insertions |-> 101, deletions |-> 9, files |-> 1]
CommitStats == {<<>>, <<large_stats>>}

\* a diff is drawn for the messages whose score it can change
Commits ==
    {c \in [author : {alice, bob}, date : {dec_2023, jan_2024},
            message : Messages, stats : CommitStats] :
        /\ <<c.author, c.date>> \in AuthorDates
        /\ c.stats # <<>> => c.message \in {msg_copilot, msg_ai_generated}}

path_local == <<"/","s","r","v","/","a","p","p">>
url_app ==
    <<"h","t","t","p","s",":","/","/","g","i","t","h","u","b",".","c","o","m",
      "/","a","c","m","e","/","a","p","p",".","g","i","t">>
url_lib ==
    <<"h","t","t","p","s",":","/","/","g","i","t","h","u","b",".","c","o","m",
      "/","a","c","m","e","/","l","i","b",".","g","i","t">>
url_docs ==
    <<"h","t","t","p","s",":","/","/","g","i","t","h","u","b",".","c","o","m",
      "/","a","c","m","e","/","d","o","c","s",".","g","i","t">>

url_http ==
    <<"h","t","t","p",":","/","/","g","i","t","h","u","b",".","c","o","m","/",
      "a","c","m","e","/","a","p","p",".","g","i","t">>
url_scp ==
    <<"g","i","t","@","g","i","t","h","u","b",".","c","o","m",":","a","c","m",
      "e","/","a","p","p",".","g","i","t">>
url_ssh ==
    <<"s","s","h",":","/","/","g","i","t","@","g","i","t","h","u","b",".","c",
      "o","m","/","a","c","m","e","/","a","p","p",".","g","i","t">>
url_mirror ==
    <<"h","t","t","p","s",":","/","/","g","i","t",".","e","x","a","m","p","l",
      "e",".","o","r","g","/","g","i","t","h","u","b",".","c","o","m","/","a",
      "p","p",".","g","i","t">>
url_lookalike ==
    <<"h","t","t","p","s",":","/","/","g","i","t","h","u","b",".","c","o","m",
      ".","e","x","a","m","p","l","e",".","o","r","g","/","a","c","m","e","/",
      "a","p","p",".","g","i","t">>
url_gitlab ==
    <<"h","t","t","p","s",":","/","/","g","i","t","l","a","b",".","c","o","m",
      "/","a","c","m","e","/","a","p","p",".","g","i","t">>

\* the URLs a remote repository is given by: the GitHub HTTPS URL, the same
\* over plain http, the two ssh forms, and three other hosts, two of them
\* with the text github.com in the path or in the host name
CloneUrls ==
    {url_app, url_http, url_scp, url_ssh, url_mirror, url_lookalike,
     url_gitlab}

name_AGENTS_md == <<"A","G","E","N","T","S",".","m","d">>
name_agents_md == <<"a","g","e","n","t","s",".","m","d">>
name_dot_agents_md == <<".","a","g","e","n","t","s",".","m","d">>
name_agent_md == <<"a","g","e","n","t",".","m","d">>
dot_git == <<".","g","i","t">>
dir_root == <<"/","w">>
text_uses_claude == <<"u","s","e","s"," ","c","l","a","u","d","e">>

\* the files os.walk yields: directory, file name, content, readable or not
file_agents ==
    [root |-> dir_root, name |-> name_AGENTS_md,
     content |-> text_uses_claude, readable |-> TRUE]

Trees == {<<>>, <<file_agents>>}

\* os.path.join(top, *dirs): the directory os.walk reports as root
RECURSIVE path_join(_, _)
path_join(top, dirs) ==
    IF dirs = <<>> THEN top
    ELSE path_join(top \o <<"/">> \o Head(dirs), Tail(dirs))

\* a file that os.walk(top) yields in the directory dirs below top
walked(top, dirs, name, content, readable) ==
    [root |-> path_join(top, dirs), name |-> name, content |-> content,
     readable |-> readable, dirs |-> dirs]

dot_github == <<".","g","i","t","h","u","b">>
dir_docs == <<"d","o","c","s">>
dir_site ==
    <<"/","s","r","v","/","m","y",".","g","i","t","h","u","b",".","i","o">>

\* working trees with one candidate file: at the top, in a subdirectory, in
\* .github/, in .git/, unreadable, under another name, and at the top of a
\* working tree checked out under my.github.io/
AgentTrees ==
    {<<>>}
    \cup {<<walked(dir_root, dirs, name, text_uses_claude, TRUE)>> :
             dirs \in {<<>>, <<dir_docs>>, <<dot_github>>, <<dot_git>>},
             name \in {name_AGENTS_md, name_agent_md}}
    \cup {<<walked(dir_root, <<>>, name_dot_agents_md, text_uses_claude,
                   readable)>> : readable \in BOOLEAN}
    \cup {<<walked(dir_root, <<>>, dir_docs, text_uses_claude, TRUE)>>,
          <<walked(dir_site, <<>>, name_agents_md, text_uses_claude, TRUE)>>}

\* the scanner's results, evaluated once for each text of the model
Texts == Messages \cup {text_uses_claude}

patterns_in == [text \in Texts |-> detect_ai_patterns(text)]
tools_in == [text \in Texts |-> extract_ai_tools(text)]

\* a repository on disk: the commits reachable from HEAD, the working tree,
\* the local branches with their commits, and the branch HEAD is on ("" when
\* HEAD is detached)
Repository(history, tree) ==
    [history |-> history, tree |-> tree,
     branches |-> ("main" :> history), active |-> "main"]

(***************************************************************************)
(* GitAnalyzer (analyzers/git_analyzer.py).                                *)
(***************************************************************************)
NoDir == 0

GitAnalyzer(repo_path, branch, github_token) ==
    [repo_path |-> repo_path, branch |-> branch,
     github_token |-> github_token, temp_dir |-> NoDir, repo |-> "None"]

_is_remote_url(path) ==
    \/ startswith(path, <<"h","t","t","p",":","/","/">>)
    \/ startswith(path, <<"h","t","t","p","s",":","/","/">>)
    \/ startswith(path, <<"g","i","t","@">>)
    \/ startswith(path, <<"s","s","h",":","/","/">>)

NoLocals ==
    [current_branch |-> "", agents_files |-> <<>>, has_agents_file |-> FALSE,
     iter |-> <<>>, detections |-> <<>>, commits_by_author |-> <<>>,
     ai_commits_by_author |-> <<>>, tools_by_author |-> <<>>,
     timeline |-> <<>>, all_tools |-> {}, tool_commits |-> <<>>,
     total_commits |-> 0, ai_commits |-> 0, high_conf |-> 0,
     medium_conf |-> 0, low_conf |-> 0, total_confidence |-> 0]

Walking == mode = "walk" \/ bpc = "walking"

\* a user of the instance may call analyze() again; analyze_repos calls once
CanCall ==
    \/ mode = "walk" /\ pc \in {"idle", "returned", "raised"}
                     /\ calls < MaxCalls
    \/ bpc = "walking" /\ pc = "idle"

IsSubstring(sub, text) ==
    \E k \in 1..(Len(text) - Len(sub) + 1) :
        SubSeq(text, k, k + Len(sub) - 1) = sub

\* the characters urllib accepts in a scheme
Letters ==
    DOMAIN UpperToLower \cup {UpperToLower[c] : c \in DOMAIN UpperToLower}

SchemeChars ==
    Letters
        \cup {"0", "1", "2", "3", "4", "5", "6", "7", "8", "9", "+", "-", "."}

\* text.find(c) for c in a set of characters: the first index, or
\* Len(text) + 1 when there is none
FirstOf(text, chars) ==
    IF \E k \in 1..Len(text) : text[k] \in chars
      THEN CHOOSE k \in 1..Len(text) :
               /\ text[k] \in chars
               /\ \A j \in 1..(k - 1) : text[j] \notin chars
      ELSE Len(text) + 1

\* urllib.parse.urlparse(url): scheme, netloc and path of a URL
urlparse(url) ==
    LET colon == FirstOf(url, {":"})
        has_scheme ==
            /\ colon > 1 /\ colon <= Len(url)
            /\ url[1] \in Letters
            /\ \A k \in 1..(colon - 1) : url[k] \in SchemeChars
        rest == IF has_scheme THEN SubSeq(url, colon + 1, Len(url)) ELSE url
        has_netloc == startswith(rest, <<"/", "/">>)
        after == SubSeq(rest, 3, Len(rest))
        stop == FirstOf(after, {"/", "?", "#"})
        tail == IF has_netloc THEN SubSeq(after, stop, Len(after)) ELSE rest
    IN  [scheme |-> IF has_scheme THEN lower(SubSeq(url, 1, colon - 1))
                    ELSE <<>>,
         netloc |-> IF has_netloc THEN SubSeq(after, 1, stop - 1) ELSE <<>>,
         path |-> SubSeq(tail, 1, FirstOf(tail, {"?", "#"}) - 1)]

str_github_com == <<"g","i","t","h","u","b",".","c","o","m">>

\* the characters of a token
TokenText == ("ghp_token" :> 
    <<"g","h","p","_","t","o","k","e","n">>)

\* the URL that _clone_repo hands to Repo.clone_from
_clone_url(url, github_token) ==
    IF github_token \notin {"None", ""} /\ IsSubstring(str_github_com, url)
      THEN LET parsed == urlparse(url)
           IN  IF parsed.scheme \in {<<"h","t","t","p">>,
                                     <<"h","t","t","p","s">>}
                 THEN parsed.scheme \o <<":", "/", "/">>
                          \o TokenText[github_token] \o <<"@">>
                          \o parsed.netloc \o parsed.path
                 ELSE url
      ELSE url

\* what git can do with the repository at _open_repo
OpenOutcomes ==
    IF an.repo # "None" THEN {"ok"}
    ELSE IF _is_remote_url(an.repo_path) THEN {"ok", "clone_failed", "invalid"}
    ELSE {"ok", "invalid"}

\* analyze() up to the return of _open_repo (with _clone_repo)
analyze_open(outcome) ==
    /\ CanCall
    /\ outcome \in OpenOutcomes
    /\ calls' = calls + 1
    /\ loc' = NoLocals
    /\ result' = <<>>
    /\ IF an.repo # "None"
         THEN /\ pc' = "prepare"
              /\ error' = ""
              /\ UNCHANGED <<an, fs, made, cloned>>
       ELSE IF _is_remote_url(an.repo_path)
         THEN LET dir == made + 1
              IN  /\ made' = dir
                  /\ cloned' = Append(cloned,
                                      _clone_url(an.repo_path,
                                                 an.github_token))
                  /\ CASE outcome = "clone_failed" ->
                            /\ an' = [an EXCEPT !.temp_dir = dir]
                            /\ fs' = fs
                            /\ pc' = "raised"
                            /\ error' = "Failed to clone repository"
                       [] outcome = "invalid" ->
                            /\ an' = [an EXCEPT !.temp_dir = dir]
                            /\ fs' = fs \cup {dir}
                            /\ pc' = "raised"
                            /\ error' = "Invalid git repository"
                       [] outcome = "ok" ->
                            /\ an' = [an EXCEPT !.temp_dir = dir,
                                                !.repo = "Repo"]
                            /\ fs' = fs \cup {dir}
                            /\ pc' = "prepare"
                            /\ error' = ""
       ELSE /\ UNCHANGED <<fs, made, cloned>>
            /\ IF outcome = "ok"
                 THEN /\ an' = [an EXCEPT !.repo = "Repo"]
                      /\ pc' = "prepare"
                      /\ error' = ""
                 ELSE /\ an' = an
                      /\ pc' = "raised"
                      /\ error' = "Invalid git repository"
    /\ UNCHANGED <<mode, world, scoreVars, batchVars>>

AgentsFileNames == {name_agents_md, name_dot_agents_md, name_agent_md}

\* the working tree not searched
_find_agents_files_none(tree) == <<>>

RECURSIVE _find_agents_files(_)
_find_agents_files(tree) ==
    IF tree = <<>> THEN <<>>
    ELSE LET file == Head(tree)
             found ==
                 /\ ~IsSubstring(dot_git, file.root)
                 /\ lower(file.name) \in AgentsFileNames
                 /\ file.readable
         IN  (IF found
                THEN <<[path |-> <<file.root, file.name>>,
                        content |-> SubSeq(file.content, 1,
                                           Min(Len(file.content), 5000)),
                        tools_mentioned |-> tools_in[file.content]]>>
                ELSE <<>>)
             \o _find_agents_files(Tail(tree))

\* what repo.git.checkout(self.branch) can do: it is not called without a
\* requested branch, and it fails when the branch cannot be resolved
CheckoutOutcomes ==
    IF an.branch = "None" THEN {"skipped"}
    ELSE IF an.branch \in DOMAIN world[an.repo_path].branches
      THEN {"ok", "failed"}
    ELSE {"failed"}

\* the repository after git checkout <branch>
checkout(repo, branch) ==
    [repo EXCEPT !.active = branch, !.history = repo.branches[branch]]

\* the branch name left at the default of the RepoAnalysis model
current_branch_default(repo) == "main"

\* repo.active_branch.name if not repo.head.is_detached else "HEAD"
current_branch(repo) == IF repo.active = "" THEN "HEAD" ELSE repo.active

\* analyze() from the branch selection to the start of the commit loop
analyze_prepare(outcome) ==
    /\ Walking
    /\ pc = "prepare"
    /\ outcome \in CheckoutOutcomes
    /\ LET repo == IF outcome = "ok"
                     THEN checkout(world[an.repo_path], an.branch)
                     ELSE world[an.repo_path]
           agents_files == _find_agents_files(repo.tree)
       IN  /\ world' = [world EXCEPT ![an.repo_path] = repo]
           /\ loc' = [NoLocals EXCEPT
                         !.current_branch = current_branch(repo),
                         !.agents_files = agents_files,
                         !.has_agents_file = Len(agents_files) > 0,
                         !.iter = repo.history]
    /\ pc' = "fold"
    /\ UNCHANGED <<mode, an, fs, made, cloned, calls, result, error,
                   scoreVars, batchVars>>

\* an exception of the git or file-system calls of analyze() after the open
analyze_raise ==
    /\ Walking
    /\ pc \in {"prepare", "fold"}
    /\ pc' = "raised"
    /\ error' = "walk failed"
    /\ UNCHANGED <<mode, world, an, fs, made, cloned, calls, loc, result,
                   scoreVars, batchVars>>

Digit(n) == <<"0", "1", "2", "3", "4", "5", "6", "7", "8", "9">>[n + 1]

\* date.strftime("%Y-%m") of a date with a four-digit year
strftime_Ym(date) ==
    <<Digit(date.year \div 1000), Digit((date.year \div 100) % 10),
      Digit((date.year \div 10) % 10), Digit(date.year % 10), "-",
      Digit(date.month \div 10), Digit(date.month % 10)>>

\* code points of the characters of a month key
Ord(c) ==
    IF c = "-" THEN 45
    ELSE 47 + CHOOSE n \in 1..10 : Digit(n - 1) = c

RECURSIVE StrLess(_, _)
StrLess(a, b) ==
    IF b = <<>> THEN FALSE
    ELSE IF a = <<>> THEN TRUE
    ELSE IF Head(a) # Head(b) THEN Ord(Head(a)) < Ord(Head(b))
    ELSE StrLess(Tail(a), Tail(b))

DateLE(a, b) == a.year < b.year \/ (a.year = b.year /\ a.month <= b.month)

NewMonth == [total |-> 0, ai |-> 0, tools |-> <<>>]

RECURSIVE CountTools(_, _)
CountTools(counts, tools) ==
    IF tools = <<>> THEN counts
    ELSE CountTools(DictPut(counts, Head(tools),
                            DictGet(counts, Head(tools), 0) + 1),
                    Tail(tools))

RECURSIVE AppendDates(_, _, _)
AppendDates(tool_commits, tools, date) ==
    IF tools = <<>> THEN tool_commits
    ELSE AppendDates(DictPut(tool_commits, Head(tools),
                             Append(DictGet(tool_commits, Head(tools), <<>>),
                                    date)),
                     Tail(tools), date)

AddTools(tools_by_author, author, tools) ==
    IF tools = <<>> THEN tools_by_author
    ELSE DictPut(tools_by_author, author,
                 DictGet(tools_by_author, author, {}) \cup Range(tools))

Signals(patterns_matched, tools_detected) ==
    <<[name |-> "pattern_match",
       value |-> Min(Len(patterns_matched) * 3000, 10000)]>>
    \o (IF tools_detected # <<>>
          THEN <<[name |-> "tool_detected", value |-> 8000]>> ELSE <<>>)

\* a tool match alone not counted
is_ai_commit_patterns_only(patterns_matched, tools_detected) ==
    patterns_matched # <<>>

\* is the commit counted as AI-assisted
is_ai_commit(patterns_matched, tools_detected) ==
    patterns_matched # <<>> \/ tools_detected # <<>>

\* the Detection model accepts a confidence_score in [0, 1] only
ValidDetection(d) == d.confidence_score >= 0 /\ d.confidence_score <= 10000

\* the newest Detection kept last
detections_prepend(detections, detection) == <<detection>> \o detections

\* detections.append(detection)
detections_append(detections, detection) == Append(detections, detection)

\* one iteration of the commit loop of analyze()
analyze_fold ==
    /\ Walking
    /\ pc = "fold"
    /\ loc.iter # <<>>
    /\ LET commit == Head(loc.iter)
           author_name == commit.author.name
           commit_date == commit.date
           month_key == strftime_Ym(commit_date)
           patterns_matched == patterns_in[commit.message]
           tools_detected == tools_in[commit.message]
           flagged == is_ai_commit(patterns_matched, tools_detected)
           lines_added ==
               IF commit.stats = <<>> THEN 0 ELSE commit.stats[1].insertions
           lines_deleted ==
               IF commit.stats = <<>> THEN 0 ELSE commit.stats[1].deletions
           files_changed ==
               IF commit.stats = <<>> THEN 0 ELSE commit.stats[1].files
           confidence ==
               calculate_confidence_score(patterns_matched, tools_detected,
                                          loc.has_agents_file, lines_added,
                                          lines_deleted)
           month == DictGet(loc.timeline, month_key, NewMonth)
           detection ==
               [commit_hash |-> loc.total_commits + 1,
                author |-> author_name,
                author_email |-> commit.author.email,
                date |-> commit_date,
                message |-> SubSeq(commit.message, 1,
                                   Min(Len(commit.message), 500)),
                tools_detected |-> tools_detected,
                patterns_matched |-> patterns_matched,
                signals |-> Signals(patterns_matched, tools_detected),
                confidence_score |-> confidence.score,
                confidence_level |-> confidence.level,
                files_changed |-> files_changed,
                lines_added |-> lines_added,
                lines_deleted |-> lines_deleted]
           counted ==
               [loc EXCEPT
                   !.iter = Tail(loc.iter),
                   !.total_commits = loc.total_commits + 1,
                   !.commits_by_author =
                       DictPut(loc.commits_by_author, author_name,
                               DictGet(loc.commits_by_author,
                                       author_name, 0) + 1),
                   !.timeline =
                       DictPut(loc.timeline, month_key,
                               [month EXCEPT !.total = month.total + 1])]
           month_counted == DictGet(counted.timeline, month_key, NewMonth)
           accumulated ==
               [counted EXCEPT
                   !.ai_commits = loc.ai_commits + 1,
                   !.ai_commits_by_author =
                       DictPut(loc.ai_commits_by_author, author_name,
                               DictGet(loc.ai_commits_by_author,
                                       author_name, 0) + 1),
                   !.timeline =
                       DictPut(counted.timeline, month_key,
                               [month_counted EXCEPT
                                   !.ai = month_counted.ai + 1,
                                   !.tools = CountTools(month_counted.tools,
                                                        tools_detected)]),
                   !.total_confidence =
                       loc.total_confidence + confidence.score,
                   !.high_conf = loc.high_conf
                       + (IF confidence.level = "high" THEN 1 ELSE 0),
                   !.medium_conf = loc.medium_conf
                       + (IF confidence.level = "medium" THEN 1 ELSE 0),
                   !.low_conf = loc.low_conf
                       + (IF confidence.level = "low" THEN 1 ELSE 0),
                   !.all_tools = loc.all_tools \cup Range(tools_detected),
                   !.tools_by_author =
                       AddTools(loc.tools_by_author, author_name,
                                tools_detected),
                   !.tool_commits =
                       AppendDates(loc.tool_commits, tools_detected,
                                   commit_date)]
       IN  IF ~flagged
             THEN loc' = counted /\ pc' = "fold" /\ error' = error
           ELSE IF ValidDetection(detection)
             THEN /\ loc' = [accumulated EXCEPT
                                !.detections =
                                    detections_append(loc.detections,
                                                      detection)]
                  /\ pc' = "fold"
                  /\ error' = error
           ELSE /\ loc' = accumulated
                /\ pc' = "raised"
                /\ error' = "validation error"
    /\ UNCHANGED <<mode, world, an, fs, made, cloned, calls, result,
                   scoreVars, batchVars>>

RECURSIVE InsertSorted(_, _)
InsertSorted(items, item) ==
    IF items = <<>> THEN <<item>>
    ELSE IF StrLess(item.key, Head(items).key) THEN <<item>> \o items
    ELSE <<Head(items)>> \o InsertSorted(Tail(items), item)

RECURSIVE sorted(_)
sorted(items) ==
    IF items = <<>> THEN <<>>
    ELSE InsertSorted(sorted(SubSeq(items, 1, Len(items) - 1)),
                      items[Len(items)])

MinDate(dates) ==
    CHOOSE d \in Range(dates) : \A e \in Range(dates) : DateLE(d, e)

MaxDate(dates) ==
    CHOOSE d \in Range(dates) : \A e \in Range(dates) : DateLE(e, d)

\* the repository's AI count used for every author
AuthorStatsOf_global_ai(l) ==
    [k \in 1..Len(l.commits_by_author) |->
        LET author == l.commits_by_author[k].key
            total == l.commits_by_author[k].value
            ai_count == l.ai_commits
        IN  [name |-> author, email |-> "",
             total_commits |-> total,
             ai_assisted_commits |-> ai_count,
             ai_percentage |-> percentage(ai_count, total),
             tools_used |-> DictGet(l.tools_by_author, author, {})]]

AuthorStatsOf(l) ==
    [k \in 1..Len(l.commits_by_author) |->
        LET author == l.commits_by_author[k].key
            total == l.commits_by_author[k].value
            ai_count == DictGet(l.ai_commits_by_author, author, 0)
        IN  [name |-> author, email |-> "",
             total_commits |-> total,
             ai_assisted_commits |-> ai_count,
             ai_percentage |-> percentage(ai_count, total),
             tools_used |-> DictGet(l.tools_by_author, author, {})]]

\* every author with a tool counted for every tool
ToolStatsOf_all_authors(l) ==
    {LET commits == DictGet(l.tool_commits, tool, <<>>)
     IN  [name |-> tool,
          commit_count |-> Len(commits),
          author_count |-> Len(l.tools_by_author),
          first_seen |-> IF commits # <<>> THEN <<MinDate(commits)>> ELSE <<>>,
          last_seen |-> IF commits # <<>> THEN <<MaxDate(commits)>> ELSE <<>>]
     : tool \in l.all_tools}

ToolStatsOf(l) ==
    {LET commits == DictGet(l.tool_commits, tool, <<>>)
     IN  [name |-> tool,
          commit_count |-> Len(commits),
          author_count |->
              Cardinality({k \in 1..Len(l.tools_by_author) :
                              tool \in l.tools_by_author[k].value}),
          first_seen |-> IF commits # <<>> THEN <<MinDate(commits)>> ELSE <<>>,
          last_seen |-> IF commits # <<>> THEN <<MaxDate(commits)>> ELSE <<>>]
     : tool \in l.all_tools}

\* the months left in the order of their first commit
order_timeline_unsorted(items) == items

order_timeline(items) == sorted(items)

TimelineOf(l) ==
    LET items == order_timeline(l.timeline)
    IN  [k \in 1..Len(items) |->
            [date |-> items[k].key,
             total_commits |-> items[k].value.total,
             ai_commits |-> items[k].value.ai,
             ai_percentage |-> percentage(items[k].value.ai,
                                          items[k].value.total),
             tools |-> items[k].value.tools]]

\* total_confidence as the code holds it: the scores of the Detections,
\* added as doubles in the order of the commits
RECURSIVE float_total_confidence(_, _, _)
float_total_confidence(total, detections, has_agents_file) ==
    IF detections = <<>> THEN total
    ELSE LET d == Head(detections)
             confidence ==
                 float_confidence_score(d.patterns_matched, d.tools_detected,
                                        has_agents_file, d.lines_added,
                                        d.lines_deleted)
         IN  float_total_confidence(float_add(total, confidence.score),
                                    Tail(detections), has_agents_file)

\* the average cut off after the third decimal
average_confidence_truncated(total_confidence, ai_commits, detections, has_agents_file) ==
    IF ai_commits > 0
      THEN 10 * (total_confidence \div (10 * ai_commits)) ELSE 0

(***************************************************************************)
(* round(total_confidence / ai_commits, 3), in units of 0.0001.  round     *)
(* gives the multiple of 0.001 nearest to the double it is given, and the  *)
(* even one of the two when the double lies exactly midway.  The double    *)
(* differs from the decimal value of the quotient by less than 2^-49, so   *)
(* it decides the result only where the decimal quotient lies midway: then *)
(* the count is a multiple of 4, the model has at most 4 flagged commits,  *)
(* the quotient of a double by 4 is exact, and the result follows from the *)
(* side of the midpoint on which the sum of the doubles lies.              *)
(***************************************************************************)
average_confidence(total_confidence, ai_commits, detections, has_agents_file) ==
    IF ai_commits = 0 THEN 0
    ELSE LET q == total_confidence \div (10 * ai_commits)
             r == total_confidence % (10 * ai_commits)
         IN  IF 2 * r # 10 * ai_commits
               THEN 10 * RoundDiv(total_confidence, 10 * ai_commits)
             ELSE LET total ==
                          float_total_confidence(Double[0], detections,
                                                 has_agents_file)
                      tie == TieDouble[total_confidence]
                      up == \/ float_gt(total, tie.least)
                            \/ /\ total = tie.least
                               /\ ~tie.exact \/ q % 2 = 1
                  IN  10 * (IF up THEN q + 1 ELSE q)

RepoAnalysis(a, l) ==
    [repo_path |-> a.repo_path,
     branch |-> l.current_branch,
     total_commits |-> l.total_commits,
     ai_assisted_commits |-> l.ai_commits,
     ai_percentage |-> percentage(l.ai_commits, l.total_commits),
     total_authors |-> Len(l.commits_by_author),
     ai_authors |-> Len(l.ai_commits_by_author),
     tools_detected |-> l.all_tools,
     detections |-> l.detections,
     agents_files |-> l.agents_files,
     author_stats |-> AuthorStatsOf(l),
     tool_stats |-> ToolStatsOf(l),
     timeline |-> TimelineOf(l),
     high_confidence_count |-> l.high_conf,
     medium_confidence_count |-> l.medium_conf,
     low_confidence_count |-> l.low_conf,
     average_confidence |-> average_confidence(l.total_confidence,
                                               l.ai_commits, l.detections,
                                               l.has_agents_file)]

\* analyze() after the commit loop: the rollups and the returned record
analyze_finalize ==
    /\ Walking
    /\ pc = "fold"
    /\ loc.iter = <<>>
    /\ result' = <<RepoAnalysis(an, loc)>>
    /\ pc' = "returned"
    /\ UNCHANGED <<mode, world, an, fs, made, cloned, calls, loc, error,
                   scoreVars, batchVars>>

\* the instance after cleanup()
cleaned(a) ==
    IF a.temp_dir # NoDir /\ a.temp_dir \in fs
      THEN [a EXCEPT !.temp_dir = NoDir] ELSE a

removed(a) ==
    IF a.temp_dir # NoDir /\ a.temp_dir \in fs THEN {a.temp_dir} ELSE {}

\* cleanup() or __exit__ called by the user of the instance
cleanup ==
    /\ mode = "walk"
    /\ pc \in {"idle", "returned", "raised"}
    /\ fs' = fs \ removed(an)
    /\ an' = cleaned(an)
    /\ UNCHANGED <<mode, world, made, cloned, pc, calls, loc, result, error,
                   scoreVars, batchVars>>

(***************************************************************************)
(* Callers of calculate_confidence_score: each action is one more call,    *)
(* with one argument grown and the others held fixed.                      *)
(***************************************************************************)
score_add_tool(tool) ==
    /\ mode = "score"
    /\ Len(sc.tools_detected) < MaxTools
    /\ sc' = [sc EXCEPT !.tools_detected = Append(sc.tools_detected, tool)]
    /\ out' = Score(sc')
    /\ UNCHANGED <<mode, world, scan, fout, walkVars, batchVars>>

score_add_pattern(pattern) ==
    /\ mode = "score"
    /\ Len(sc.patterns_matched) < MaxPatterns
    /\ sc' = [sc EXCEPT
                 !.patterns_matched = Append(sc.patterns_matched, pattern)]
    /\ out' = Score(sc')
    /\ UNCHANGED <<mode, world, scan, fout, walkVars, batchVars>>

score_add_agents_file ==
    /\ mode = "score"
    /\ ~sc.has_agents_file
    /\ sc' = [sc EXCEPT !.has_agents_file = TRUE]
    /\ out' = Score(sc')
    /\ UNCHANGED <<mode, world, scan, fout, walkVars, batchVars>>

score_add_large_addition(added, deleted) ==
    /\ mode = "score"
    /\ ~large_addition(sc.lines_added, sc.lines_deleted)
    /\ large_addition(added, deleted)
    /\ sc' = [sc EXCEPT !.lines_added = added, !.lines_deleted = deleted]
    /\ out' = Score(sc')
    /\ UNCHANGED <<mode, world, scan, fout, walkVars, batchVars>>

(***************************************************************************)
(* Callers of extract_ai_tools: each action is one more call, on the text  *)
(* of the last call with one more word.                                    *)
(***************************************************************************)
word_Copilot == <<"C","o","p","i","l","o","t"," ">>
word_CURSOR == <<"C","U","R","S","O","R"," ">>
word_GPT_4 == <<"G","P","T","-","4"," ">>
word_claude == <<"c","l","a","u","d","e"," ">>
word_Anthropic == <<"A","n","t","h","r","o","p","i","c"," ">>
word_fix == <<"f","i","x","\n">>

Words == {word_Copilot, word_CURSOR, word_GPT_4, word_claude, word_Anthropic,
          word_fix}

NoScan == [text |-> <<>>, words |-> 0, tools |-> <<>>]

scan_text(word) ==
    /\ mode = "scan"
    /\ scan.words < MaxWords
    /\ scan' = [text |-> scan.text \o word, words |-> scan.words + 1,
                tools |-> extract_ai_tools(scan.text \o word)]
    /\ UNCHANGED <<mode, world, sc, out, fout, walkVars, batchVars>>

(***************************************************************************)
(* A caller of calculate_confidence_score that calls it again with two     *)
(* neighbouring entries of a match list exchanged.                         *)
(***************************************************************************)
NoDoubles == [score |-> <<0, 0>>, level |-> "none"]

FloatScore(args) ==
    float_confidence_score(args.patterns_matched, args.tools_detected,
                           args.has_agents_file, args.lines_added,
                           args.lines_deleted)

swap(xs, k) ==
    [j \in 1..Len(xs) |->
        IF j = k THEN xs[k + 1] ELSE IF j = k + 1 THEN xs[k] ELSE xs[j]]

score_swap_patterns(k) ==
    /\ mode = "order"
    /\ k < Len(sc.patterns_matched)
    /\ sc' = [sc EXCEPT !.patterns_matched = swap(sc.patterns_matched, k)]
    /\ fout' = FloatScore(sc')
    /\ UNCHANGED <<mode, world, out, scan, walkVars, batchVars>>

score_swap_tools(k) ==
    /\ mode = "order"
    /\ k < Len(sc.tools_detected)
    /\ sc' = [sc EXCEPT !.tools_detected = swap(sc.tools_detected, k)]
    /\ fout' = FloatScore(sc')
    /\ UNCHANGED <<mode, world, out, scan, walkVars, batchVars>>

(***************************************************************************)
(* GitHubAnalyzer.analyze_repos (analyzers/github_analyzer.py).            *)
(***************************************************************************)
api_token == "ghp_token"

repo_app == [name |-> "app", clone_url |-> url_app, default_branch |-> "main"]
repo_lib == [name |-> "lib", clone_url |-> url_lib, default_branch |-> "main"]
repo_docs ==
    [name |-> "docs", clone_url |-> url_docs, default_branch |-> "main"]

BatchRepos == {repo_app, repo_lib, repo_docs}

BatchWorld ==
    (url_app :> Repository(
         <<[author |-> alice, date |-> jan_2024, message |-> msg_copilot,
            stats |-> <<large_stats>>],
           [author |-> bob, date |-> dec_2023, message |-> msg_plain,
            stats |-> <<>>]>>,
         <<file_agents>>))
    @@ (url_lib :> Repository(
         <<[author |-> bob, date |-> jan_2024, message |-> msg_three_tools,
            stats |-> <<>>]>>,
         <<>>))
    @@ (url_docs :> Repository(<<>>, <<>>))

NoBatch ==
    [repos |-> <<>>, branch |-> "None", callback |-> FALSE, i |-> 0,
     results |-> <<>>, printed |-> <<>>, progress |-> <<>>]

\* the repositories analyzed with success reported as the current index
progress_args_succeeded(i, total, repo) ==
    <<Len(br.results), total, repo.name>>

\* the arguments of progress_callback(i, total, repo["name"])
progress_args(i, total, repo) == <<i, total, repo.name>>

\* top of the loop body: progress callback, new GitAnalyzer, __enter__
analyze_repos_next ==
    /\ bpc = "loop"
    /\ br.i < Len(br.repos)
    /\ LET repo == br.repos[br.i + 1]
       IN  /\ br' = [br EXCEPT
                        !.progress =
                            IF br.callback
                              THEN Append(br.progress,
                                          progress_args(br.i, Len(br.repos),
                                                        repo))
                              ELSE br.progress]
           /\ an' = GitAnalyzer(repo.clone_url,
                                IF br.branch # "None" THEN br.branch
                                ELSE repo.default_branch,
                                api_token)
    /\ pc' = "idle"
    /\ calls' = 0
    /\ loc' = NoLocals
    /\ result' = <<>>
    /\ error' = ""
    /\ bpc' = "walking"
    /\ UNCHANGED <<mode, world, fs, made, cloned, multi, gh, scoreVars>>

\* the exception of a walk left to propagate
after_walk_reraise(outcome) == IF outcome = "raised" THEN "failed" ELSE "loop"

\* where analyze_repos goes after a walk: the except clause continues the loop
after_walk(outcome) == "loop"

\* a repository whose walk raised taken again
next_index_retry(i, outcome) == IF outcome = "raised" THEN i ELSE i + 1

\* the index of the next loop iteration: enumerate moves on after a walk
\* that returned and after one that raised
next_index(i, outcome) == i + 1

\* end of the with block: __exit__, then results.append or the except clause
analyze_repos_exit ==
    /\ bpc = "walking"
    /\ pc \in {"returned", "raised"}
    /\ fs' = fs \ removed(an)
    /\ an' = cleaned(an)
    /\ br' = IF pc = "returned"
               THEN [br EXCEPT !.i = next_index(br.i, pc),
                               !.results = Append(br.results, result[1])]
               ELSE [br EXCEPT !.i = next_index(br.i, pc),
                               !.printed =
                                   Append(br.printed,
                                          <<br.repos[br.i + 1].name, error>>)]
    /\ bpc' = after_walk(pc)
    /\ UNCHANGED <<mode, world, made, cloned, pc, calls, loc, result, error,
                   multi, gh, scoreVars>>

\* every repository's authors counted apart
AllAuthors_per_repo(results) ==
    UNION {{<<k, results[k].author_stats[j].name>> :
               j \in 1..Len(results[k].author_stats)} : k \in 1..Len(results)}

AllAuthors(results) ==
    UNION {{results[k].author_stats[j].name :
               j \in 1..Len(results[k].author_stats)} : k \in 1..Len(results)}

AiAuthors(results) ==
    UNION {{results[k].author_stats[j].name :
               j \in {n \in 1..Len(results[k].author_stats) :
                         results[k].author_stats[n].ai_assisted_commits > 0}}
           : k \in 1..Len(results)}

MultiRepoAnalysis(results) ==
    LET total_commits ==
            SumSeq([k \in 1..Len(results) |-> results[k].total_commits])
        total_ai_commits ==
            SumSeq([k \in 1..Len(results) |-> results[k].ai_assisted_commits])
    IN  [repos |-> results,
         total_repos |-> Len(results),
         total_commits |-> total_commits,
         total_ai_commits |-> total_ai_commits,
         overall_ai_percentage |-> percentage(total_ai_commits, total_commits),
         all_tools_detected |->
             UNION {results[k].tools_detected : k \in 1..Len(results)},
         all_authors |-> Cardinality(AllAuthors(results)),
         ai_authors |-> Cardinality(AiAuthors(results))]

\* after the loop: last progress callback, aggregation, return
analyze_repos_finish ==
    /\ bpc = "loop"
    /\ br.i = Len(br.repos)
    /\ br' = [br EXCEPT
                 !.progress =
                     IF br.callback
                       THEN Append(br.progress,
                                   <<Len(br.repos), Len(br.repos), "Complete">>)
                       ELSE br.progress]
    /\ multi' = <<MultiRepoAnalysis(br.results)>>
    /\ bpc' = "done"
    /\ UNCHANGED <<mode, world, gh, walkVars, scoreVars>>

(***************************************************************************)
(* GitHubAnalyzer: _request, _paginate, get_teams, get_team_repos,         *)
(* get_org_repos, analyze_team, analyze_org.                               *)
(***************************************************************************)
PerPage == 100

\* the status codes the API answers with
Statuses == {200, 204, 401, 403, 404, 500}

\* the sizes of the collections served: around every multiple of the page
\* size
Sizes ==
    {p * PerPage + d : p \in 0..(MaxPages - 1), d \in {0, 1, 2, PerPage - 1}}

\* the k-th repository object the API serves; some lack default_branch
RemoteRepo(k) ==
    LET repo == CASE k % 3 = 1 -> repo_app
                  [] k % 3 = 2 -> repo_lib
                  [] OTHER -> repo_docs
        common == [id |-> k, name |-> repo.name, full_name |-> <<"acme", k>>,
                   clone_url |-> repo.clone_url, private |-> k % 2 = 0,
                   fork |-> FALSE]
    IN  IF k % 3 = 0 THEN common
        ELSE common @@ [default_branch |-> repo.default_branch]

\* the k-th team object the API serves
RemoteTeam(k) ==
    [id |-> k, name |-> <<"Team", k>>, slug |-> <<"team", k>>,
     privacy |-> "closed"]

Remote(n) ==
    [teams |-> [k \in 1..n |-> RemoteTeam(k)],
     repos |-> [k \in 1..n |-> RemoteRepo(k)]]

NoClient ==
    [org |-> "None", pc |-> "off", entry |-> "", collection |-> "",
     endpoint |-> <<>>, page |-> 0, results |-> <<>>, requests |-> <<>>,
     error |-> <<>>, value |-> <<>>, remote |-> Remote(0)]

\* what the API answers to GET endpoint?per_page=..&page=..
page_of(items, page) ==
    LET first == (page - 1) * PerPage + 1
        last == Min(page * PerPage, Len(items))
    IN  IF first > last THEN <<>> ELSE SubSeq(items, first, last)

\* 403 reported with the message of 401
_request_403_as_401(endpoint, status, text, body) ==
    IF status \in {401, 403}
      THEN [error |-> <<"Invalid GitHub token. Please check your token and try again.">>,
            data |-> <<>>]
    ELSE IF status = 404
      THEN [error |-> <<"Resource not found: ", endpoint>>, data |-> <<>>]
    ELSE IF status # 200
      THEN [error |-> <<"GitHub API error: ", ToString(status), " - ", text>>,
            data |-> <<>>]
    ELSE [error |-> <<>>, data |-> body]

\* _request: the ValueError raised, or the decoded body; error is <<>> when
\* nothing is raised
_request(endpoint, status, text, body) ==
    IF status = 401
      THEN [error |-> <<"Invalid GitHub token. Please check your token and try again.">>,
            data |-> <<>>]
    ELSE IF status = 403
      THEN [error |-> <<"Access forbidden. Token may lack required scopes or org access.">>,
            data |-> <<>>]
    ELSE IF status = 404
      THEN [error |-> <<"Resource not found: ", endpoint>>, data |-> <<>>]
    ELSE IF status # 200
      THEN [error |-> <<"GitHub API error: ", ToString(status), " - ", text>>,
            data |-> <<>>]
    ELSE [error |-> <<>>, data |-> body]

\* the loop left on an empty page only
last_page_only_empty(data) == data = <<>>

\* the two breaks of the loop of _paginate
last_page(data) == data = <<>> \/ Len(data) < PerPage

\* the list comprehension of get_teams
teams_of(items) ==
    [k \in 1..Len(items) |->
        [name |-> items[k].name, slug |-> items[k].slug, id |-> items[k].id]]

\* the list comprehension of get_team_repos and get_org_repos
repos_of(items) ==
    [k \in 1..Len(items) |->
        [name |-> items[k].name, full_name |-> items[k].full_name,
         clone_url |-> items[k].clone_url, private |-> items[k].private,
         default_branch |->
             IF "default_branch" \in DOMAIN items[k]
               THEN items[k].default_branch ELSE "main"]]

\* the check of the organization name left out
org_missing_unchecked(org) == FALSE

\* if not self.org
org_missing(org) == org \in {"None", ""}

\* the start of get_teams, get_team_repos or get_org_repos: the check of the
\* organization name and the first lines of _paginate
list_call(entry, collection, endpoint, what) ==
    IF org_missing(gh.org)
      THEN [gh EXCEPT
               !.pc = "raised", !.entry = entry,
               !.error = <<"Organization name is required to list ", what>>]
      ELSE [gh EXCEPT
               !.pc = "paging", !.entry = entry, !.collection = collection,
               !.endpoint = endpoint, !.page = 1, !.results = <<>>]

get_teams ==
    /\ mode = "org"
    /\ gh.pc = "idle"
    /\ gh' = list_call("get_teams", "teams", <<"/orgs/", gh.org, "/teams">>,
                       "teams")
    /\ UNCHANGED <<mode, world, bpc, br, multi, walkVars, scoreVars>>

team_slug == "team1"

\* analyze_team up to the first request of get_team_repos
analyze_team ==
    /\ mode = "org"
    /\ gh.pc = "idle"
    /\ gh' = list_call("analyze_team", "repos",
                       <<"/orgs/", gh.org, "/teams/", team_slug, "/repos">>,
                       "team repos")
    /\ UNCHANGED <<mode, world, bpc, br, multi, walkVars, scoreVars>>

\* analyze_org up to the first request of get_org_repos
analyze_org ==
    /\ mode = "org"
    /\ gh.pc = "idle"
    /\ gh' = list_call("analyze_org", "repos", <<"/orgs/", gh.org, "/repos">>,
                       "org repos")
    /\ UNCHANGED <<mode, world, bpc, br, multi, walkVars, scoreVars>>

\* one iteration of the loop of _paginate, with the request it sends; the
\* last one returns to get_teams, get_team_repos or get_org_repos
_paginate(status, text) ==
    /\ mode = "org"
    /\ gh.pc = "paging"
    /\ LET body == page_of(gh.remote[gh.collection], gh.page)
           response == _request(gh.endpoint, status, text, body)
           data == response.data
           results == IF data = <<>> THEN gh.results ELSE gh.results \o data
           sent == Append(gh.requests,
                          [endpoint |-> gh.endpoint, page |-> gh.page,
                           per_page |-> PerPage, status |-> status])
       IN  gh' = IF response.error # <<>>
                   THEN [gh EXCEPT !.pc = "raised", !.requests = sent,
                                   !.error = response.error,
                                   !.results = <<>>]
                 ELSE IF last_page(data)
                   THEN [gh EXCEPT !.pc = "listed", !.requests = sent,
                                   !.results = results,
                                   !.value =
                                       <<IF gh.collection = "teams"
                                           THEN teams_of(results)
                                           ELSE repos_of(results)>>]
                 ELSE [gh EXCEPT !.requests = sent, !.results = results,
                                 !.page = gh.page + 1]
    /\ UNCHANGED <<mode, world, bpc, br, multi, walkVars, scoreVars>>

\* analyze_team and analyze_org after the listing: the call of analyze_repos
analyze_repos_call ==
    /\ mode = "org"
    /\ gh.pc = "listed"
    /\ gh.entry \in {"analyze_team", "analyze_org"}
    /\ Len(gh.value[1]) <= MaxRepos
    /\ gh' = [gh EXCEPT !.pc = "analyzing"]
    /\ br' = [NoBatch EXCEPT !.repos = gh.value[1], !.callback = TRUE]
    /\ bpc' = "loop"
    /\ UNCHANGED <<mode, world, multi, walkVars, scoreVars>>

(***************************************************************************)
(* Initial states and specifications.                                      *)
(***************************************************************************)
NoWorld == (path_local :> Repository(<<>>, <<>>))

IdleWalk ==
    /\ an = GitAnalyzer(path_local, "None", "None")
    /\ fs = {}
    /\ made = 0
    /\ cloned = <<>>
    /\ pc = "idle"
    /\ calls = 0
    /\ loc = NoLocals
    /\ result = <<>>
    /\ error = ""

IdleBatch ==
    /\ bpc = "off"
    /\ br = NoBatch
    /\ multi = <<>>
    /\ gh = NoClient

InitScore ==
    /\ mode = "score"
    /\ fout = NoDoubles
    /\ sc \in ScoreInputs
    /\ out = Score(sc)
    /\ scan = NoScan
    /\ world = NoWorld
    /\ IdleWalk
    /\ IdleBatch

InitScan ==
    /\ mode = "scan"
    /\ fout = NoDoubles
    /\ sc = NoArgs
    /\ out = NoScore
    /\ \E text \in {<<>>} \cup Words :
          scan = [text |-> text, words |-> IF text = <<>> THEN 0 ELSE 1,
                  tools |-> extract_ai_tools(text)]
    /\ world = NoWorld
    /\ IdleWalk
    /\ IdleBatch

InitWalkOn(paths, histories, trees) ==
    /\ mode = "walk"
    /\ fout = NoDoubles
    /\ sc = NoArgs
    /\ out = NoScore
    /\ scan = NoScan
    /\ \E path \in paths, history \in histories, tree \in trees :
          /\ world = (path :> Repository(history, tree))
          /\ an = GitAnalyzer(path, "None", "None")
    /\ fs = {}
    /\ made = 0
    /\ cloned = <<>>
    /\ pc = "idle"
    /\ calls = 0
    /\ loc = NoLocals
    /\ result = <<>>
    /\ error = ""
    /\ IdleBatch

commit_copilot ==
    [author |-> alice, date |-> jan_2024, message |-> msg_copilot,
     stats |-> <<>>]
commit_plain ==
    [author |-> bob, date |-> jan_2024, message |-> msg_plain, stats |-> <<>>]

\* a local repository with any history, or a remote one with a short history
InitWalk ==
    \/ InitWalkOn({path_local}, SeqsUpTo(Commits, MaxCommits), Trees)
    \/ InitWalkOn({url_app}, {<<>>, <<commit_copilot>>}, Trees)

\* ten commits, three of them "generated by copilot", the others matching
\* nothing
ScenarioHistories ==
    {h \in [1..10 -> {commit_copilot, commit_plain}] :
        Cardinality({k \in 1..10 : h[k] = commit_copilot}) = 3}

InitScenario == InitWalkOn({path_local, url_app}, ScenarioHistories, Trees)

\* a local repository with two branches, HEAD on one of them or detached,
\* and a caller that requests no branch, one of the two, or one that does
\* not exist
BranchRepositories ==
    {[history |-> on.history, tree |-> tree,
      branches |-> ("main" :> <<commit_plain>>)
                   @@ ("dev" :> <<commit_copilot, commit_plain>>),
      active |-> on.active] :
        on \in {[active |-> "main", history |-> <<commit_plain>>],
                [active |-> "dev",
                 history |-> <<commit_copilot, commit_plain>>],
                [active |-> "", history |-> <<commit_copilot>>]},
        tree \in Trees}

RequestedBranches == {"None", "main", "dev", "gone"}

InitBranch ==
    /\ mode = "walk"
    /\ fout = NoDoubles
    /\ sc = NoArgs
    /\ out = NoScore
    /\ scan = NoScan
    /\ \E repo \in BranchRepositories, branch \in RequestedBranches :
          /\ world = (path_local :> repo)
          /\ an = GitAnalyzer(path_local, branch, "None")
    /\ fs = {}
    /\ made = 0
    /\ cloned = <<>>
    /\ pc = "idle"
    /\ calls = 0
    /\ loc = NoLocals
    /\ result = <<>>
    /\ error = ""
    /\ IdleBatch

\* a local repository with one candidate agent file somewhere in its tree
InitTree ==
    InitWalkOn({path_local},
               {<<>>, <<commit_copilot>>,
                <<commit_copilot, commit_plain, commit_plain>>},
               AgentTrees)

\* a remote repository given by any of the URLs, with or without a token
InitClone ==
    /\ mode = "walk"
    /\ fout = NoDoubles
    /\ sc = NoArgs
    /\ out = NoScore
    /\ scan = NoScan
    /\ \E url \in CloneUrls, github_token \in {"None", "", api_token},
          history \in {<<>>, <<commit_copilot>>} :
          /\ world = (url :> Repository(history, <<>>))
          /\ an = GitAnalyzer(url, "None", github_token)
    /\ fs = {}
    /\ made = 0
    /\ cloned = <<>>
    /\ pc = "idle"
    /\ calls = 0
    /\ loc = NoLocals
    /\ result = <<>>
    /\ error = ""
    /\ IdleBatch

\* match lists whose entries add generic weight, with and without tools
OrderInputs ==
    [patterns_matched : SeqsUpTo(OrderPatterns, MaxOrder),
     tools_detected : SeqsUpTo({"GitHub Copilot", "Cascade"}, 2),
     has_agents_file : BOOLEAN,
     lines_added : {100},
     lines_deleted : {10}]

InitOrder ==
    /\ mode = "order"
    /\ sc \in OrderInputs
    /\ fout = FloatScore(sc)
    /\ out = NoScore
    /\ scan = NoScan
    /\ world = NoWorld
    /\ IdleWalk
    /\ IdleBatch

commit_gpt4 ==
    [author |-> bob, date |-> dec_2023, message |-> msg_gpt4, stats |-> <<>>]
commit_three_tools ==
    [author |-> alice, date |-> jan_2024, message |-> msg_three_tools,
     stats |-> <<>>]
commit_ai_generated ==
    [author |-> alice, date |-> dec_2023, message |-> msg_ai_generated,
     stats |-> <<>>]

\* histories of flagged commits only, one commit for each confidence level:
\* copilot is medium, three tools are high, a tool alone is none, and
\* "ai-generated" is none without an agent file and low with one

LevelHistories ==
    [1..MaxLevels -> {commit_copilot, commit_gpt4, commit_three_tools,
                      commit_ai_generated}]

InitLevels == InitWalkOn({path_local}, LevelHistories, Trees)

InitBatch ==
    /\ mode = "batch"
    /\ fout = NoDoubles
    /\ sc = NoArgs
    /\ out = NoScore
    /\ scan = NoScan
    /\ world = BatchWorld
    /\ IdleWalk
    /\ bpc = "loop"
    /\ \E repos \in SeqsUpTo(BatchRepos, MaxRepos) :
          br = [NoBatch EXCEPT !.repos = repos, !.callback = TRUE]
    /\ multi = <<>>
    /\ gh = NoClient

\* a GitHubAnalyzer with or without an organization name, and an
\* organization with n teams and n repositories
InitOrg ==
    /\ mode = "org"
    /\ fout = NoDoubles
    /\ sc = NoArgs
    /\ out = NoScore
    /\ scan = NoScan
    /\ world = BatchWorld
    /\ IdleWalk
    /\ bpc = "off"
    /\ br = NoBatch
    /\ multi = <<>>
    /\ \E org \in {"None", "", "acme"}, n \in Sizes :
          gh = [NoClient EXCEPT !.org = org, !.pc = "idle",
                                !.remote = Remote(n)]

Init ==
    InitScore \/ InitScan \/ InitWalk \/ InitScenario \/ InitBranch
        \/ InitTree \/ InitClone \/ InitLevels \/ InitOrder \/ InitBatch
        \/ InitOrg

NextScore ==
    \/ \E tool \in ScoreTools : score_add_tool(tool)
    \/ \E pattern \in ScorePatterns : score_add_pattern(pattern)
    \/ score_add_agents_file
    \/ \E added \in LinesAdded, deleted \in LinesDeleted :
          score_add_large_addition(added, deleted)

NextScan == \E word \in Words : scan_text(word)

NextOrder ==
    \/ \E k \in 1..MaxOrder : score_swap_patterns(k)
    \/ \E k \in 1..MaxOrder : score_swap_tools(k)

NextWalk ==
    \/ \E outcome \in {"ok", "clone_failed", "invalid"} : analyze_open(outcome)
    \/ \E outcome \in {"skipped", "ok", "failed"} : analyze_prepare(outcome)
    \/ analyze_fold
    \/ analyze_finalize
    \/ analyze_raise
    \/ cleanup

NextBatch ==
    \/ analyze_repos_next
    \/ \E outcome \in {"ok", "clone_failed", "invalid"} : analyze_open(outcome)
    \/ \E outcome \in {"skipped", "ok", "failed"} : analyze_prepare(outcome)
    \/ analyze_fold
    \/ analyze_finalize
    \/ analyze_raise
    \/ analyze_repos_exit
    \/ analyze_repos_finish

ResponseTexts == {"", "Server Error"}

NextOrg ==
    \/ get_teams
    \/ analyze_team
    \/ analyze_org
    \/ \E status \in Statuses, text \in ResponseTexts : _paginate(status, text)
    \/ analyze_repos_call
    \/ NextBatch

Next == NextScore \/ NextScan \/ NextOrder \/ NextWalk \/ NextBatch \/ NextOrg

Spec == Init /\ [][Next]_vars
SpecScore == InitScore /\ [][NextScore]_vars
SpecScan == InitScan /\ [][NextScan]_vars
SpecWalk == InitWalk /\ [][NextWalk]_vars
SpecScenario == InitScenario /\ [][NextWalk]_vars
SpecBranch == InitBranch /\ [][NextWalk]_vars
SpecTree == InitTree /\ [][NextWalk]_vars
SpecClone == InitClone /\ [][NextWalk]_vars
SpecOrder == InitOrder /\ [][NextOrder]_vars
SpecLevels == InitLevels /\ [][NextWalk]_vars
SpecBatch == InitBatch /\ [][NextBatch]_vars
SpecOrg == InitOrg /\ [][NextOrg]_vars

\* a request is answered, so a _paginate that can go on does
SpecPaginate ==
    SpecOrg /\ WF_vars(\E status \in Statuses, text \in ResponseTexts :
                          _paginate(status, text))

(***************************************************************************)
(* Properties.                                                             *)
(***************************************************************************)
Returned == result # <<>>

History == world[an.repo_path].history

LevelRank(level) ==
    CASE level = "none" -> 0
      [] level = "low" -> 1
      [] level = "medium" -> 2
      [] level = "high" -> 3

KnownToolCount(tools) ==
    Cardinality({k \in 1..Len(tools) : tools[k] \in ToolNames})

\* C1: a scorer call whose generic-match list is empty returns exactly
\* (0.0, "none"), whatever the tools, the agent-file flag and the line counts.
C1_EmptyPatternsScoreNone ==
    (mode = "score" /\ sc.patterns_matched = <<>>)
        => out = [score |-> 0, level |-> "none"]

C1_Witness ==
    /\ mode = "score"
    /\ sc.patterns_matched = <<>>
    /\ Contains(sc.tools_detected, "GitHub Copilot")
    /\ sc.has_agents_file
    /\ large_addition(sc.lines_added, sc.lines_deleted)
    /\ out = [score |-> 0, level |-> "none"]

\* C2: every score the scorer returns lies in [0, 1]; with a generic match
\* and three or more catalog tools it is exactly 1.0; every Detection that
\* analyze() builds has a confidence_score in [0, 1].
C2_ScoreBounded ==
    /\ out.score >= 0 /\ out.score <= 10000
    /\ (sc.patterns_matched # <<>> /\ KnownToolCount(sc.tools_detected) >= 3)
           => out.score = 10000
    /\ \A k \in 1..Len(loc.detections) :
          /\ loc.detections[k].confidence_score >= 0
          /\ loc.detections[k].confidence_score <= 10000
          /\ Len(loc.detections[k].tools_detected) >= 3
                 => loc.detections[k].confidence_score = 10000
    /\ Returned =>
          \A k \in 1..Len(result[1].detections) :
              /\ result[1].detections[k].confidence_score >= 0
              /\ result[1].detections[k].confidence_score <= 10000

C2_Witness ==
    /\ mode = "score"
    /\ sc.patterns_matched # <<>>
    /\ KnownToolCount(sc.tools_detected) >= 3
    /\ tools_score(sc.tools_detected) > 10000
    /\ out.score = 10000

\* C3: from a call with a non-empty generic-match list, one more tool, one
\* more generic match, the agent file or the large-addition condition never
\* lowers the score and never lowers the level (none < low < medium < high).
C3_Monotone ==
    [][(mode = "score" /\ sc.patterns_matched # <<>>)
           => /\ out'.score >= out.score
              /\ LevelRank(out'.level) >= LevelRank(out.level)]_vars

C3_Witness ==
    /\ mode = "score"
    /\ Len(sc.patterns_matched) > 1
    /\ Len(sc.tools_detected) > 1
    /\ sc.has_agents_file
    /\ large_addition(sc.lines_added, sc.lines_deleted)
    /\ out.score > 0

\* C4: the level is decided by the capped score alone: >= 0.7 high,
\* >= 0.4 medium, > 0 low, 0 none; 0.7 is high, 0.6999 medium, 0.4 medium,
\* 0.3999 low.
C4_LevelThresholds ==
    /\ mode = "score" =>
          /\ out.score >= 7000 => out.level = "high"
          /\ (out.score >= 4000 /\ out.score < 7000) => out.level = "medium"
          /\ (out.score > 0 /\ out.score < 4000) => out.level = "low"
          /\ out.score = 0 => out.level = "none"
    /\ confidence_level(7000) = "high"
    /\ confidence_level(6999) = "medium"
    /\ confidence_level(4000) = "medium"
    /\ confidence_level(3999) = "low"
    /\ confidence_level(0) = "none"

C4_Witness ==
    /\ mode = "score"
    /\ out.score = 7000
    /\ out.level = "high"

AuthorsOf(history) == {history[k].author.name : k \in 1..Len(history)}

\* C5: in every RepoAnalysis the AuthorStats total_commits sum to
\* total_commits, their ai_assisted_commits sum to ai_assisted_commits, and
\* there is exactly one AuthorStats for each distinct author name.
C5_AuthorStatsSum ==
    Returned =>
        LET r == result[1]
            stats == r.author_stats
        IN  /\ SumSeq([k \in 1..Len(stats) |-> stats[k].total_commits])
                   = r.total_commits
            /\ SumSeq([k \in 1..Len(stats) |-> stats[k].ai_assisted_commits])
                   = r.ai_assisted_commits
            /\ \A j, k \in 1..Len(stats) :
                   stats[j].name = stats[k].name => j = k
            /\ {stats[k].name : k \in 1..Len(stats)} = AuthorsOf(History)
            /\ r.total_commits = Len(History)

C5_Witness ==
    /\ Returned
    /\ Len(result[1].author_stats) = 2
    /\ result[1].ai_assisted_commits = 1
    /\ \E k \in 1..2 : result[1].author_stats[k].ai_assisted_commits = 0

\* C6: in every RepoAnalysis the timeline keys are distinct and strictly
\* ascending, whatever the order of the commits, each entry has
\* ai_commits <= total_commits, and the entries' total_commits sum to the
\* repository's total_commits.
C6_TimelineOrdered ==
    Returned =>
        LET r == result[1]
            t == r.timeline
        IN  /\ \A j, k \in 1..Len(t) : j < k => StrLess(t[j].date, t[k].date)
            /\ \A k \in 1..Len(t) : t[k].ai_commits <= t[k].total_commits
            /\ SumSeq([k \in 1..Len(t) |-> t[k].total_commits])
                   = r.total_commits

C6_Witness ==
    /\ Returned
    /\ Len(History) = 2
    /\ History[1].date = jan_2024
    /\ History[2].date = dec_2023
    /\ Len(result[1].timeline) = 2
    /\ result[1].timeline[1].date = strftime_Ym(dec_2023)

\* C7: analyze_repos never aborts a batch for one failing repository: after
\* every walk, failed or not, it goes on with the next repository; the
\* analyses of the walks that returned, and only those, are collected in
\* order; it returns a MultiRepoAnalysis over them with total_repos their
\* number.
C7_BatchSurvivesFailure ==
    /\ [](bpc \in {"off", "loop", "walking", "done"})
    /\ [][bpc = "walking" /\ bpc' # "walking"
              => /\ bpc' = "loop"
                 /\ br'.i = br.i + 1
                 /\ br'.results = IF pc = "returned"
                                    THEN Append(br.results, result[1])
                                    ELSE br.results]_vars
    /\ [](bpc \in {"loop", "walking"}
              => Len(br.results) + Len(br.printed) = br.i)
    /\ [](bpc = "done"
              => /\ multi # <<>>
                 /\ br.i = Len(br.repos)
                 /\ Len(br.results) + Len(br.printed) = Len(br.repos)
                 /\ multi[1].repos = br.results
                 /\ multi[1].total_repos = Len(br.repos) - Len(br.printed))

C7_Witness ==
    /\ bpc = "done"
    /\ Len(br.repos) = 3
    /\ Len(br.printed) = 1
    /\ br.printed[1] = <<br.repos[1].name, "Failed to clone repository">>
    /\ br.repos[2] # br.repos[1]
    /\ br.repos[3] # br.repos[1]
    /\ multi[1].total_repos = 2

\* C8: for a remote repo_path, whenever a call of analyze() has returned or
\* raised, the temporary directory that _clone_repo created no longer exists.
C8_TempDirRemoved ==
    (mode = "walk" /\ pc \in {"returned", "raised"}) => fs = {}

\* the skipped repositories that a MultiRepoAnalysis names: the record has
\* no field for them
RecordedSkips(m) == IF "skipped" \in DOMAIN m THEN m.skipped ELSE <<>>

\* C9: from the MultiRepoAnalysis alone the skipped repositories can be
\* counted and named: the repositories in the result plus the recorded skips
\* are as many as the repositories of the input list.
C9_SkipsRecorded ==
    bpc = "done"
        => Len(multi[1].repos) + Len(RecordedSkips(multi[1])) = Len(br.repos)

\* C10: ten commits, three of them "generated by copilot" and seven matching
\* nothing, no agent file: three Detections, each with tools
\* ["GitHub Copilot"], score 0.45 and level medium; ai_assisted_commits is 3
\* and ai_percentage 30.0.
C10_CopilotScenario ==
    (Returned /\ world[an.repo_path].tree = <<>>) =>
        LET r == result[1]
        IN  /\ Len(r.detections) = 3
            /\ \A k \in 1..Len(r.detections) :
                   /\ r.detections[k].tools_detected = <<"GitHub Copilot">>
                   /\ r.detections[k].confidence_score = 4500
                   /\ r.detections[k].confidence_level = "medium"
            /\ r.total_commits = 10
            /\ r.ai_assisted_commits = 3
            /\ r.ai_percentage = 3000

C10_Witness ==
    /\ Returned
    /\ world[an.repo_path].tree = <<>>
    /\ Len(History) = 10
    /\ Len(result[1].detections) = 3
    /\ result[1].ai_percentage = 3000

\* the score the same commit gets in a repository without an agent file
ScoreWithoutFile(d) ==
    calculate_confidence_score(d.patterns_matched, d.tools_detected, FALSE,
                               d.lines_added, d.lines_deleted).score

\* C11 as stated: the agent-file bonus is global to a walk: every Detection
\* of one analyze() call is scored with the same has_agents_file value, found
\* before the first commit is scored, and when an agent file was read each
\* Detection's score is 0.1 above its score in the same repository without
\* the file (up to the cap at 1.0).
C11_AgentsBonusEveryDetection ==
    mode = "walk" =>
        \A k \in 1..Len(loc.detections) :
            LET d == loc.detections[k]
            IN  /\ d.confidence_score =
                       calculate_confidence_score(
                           d.patterns_matched, d.tools_detected,
                           world[an.repo_path].tree # <<>>,
                           d.lines_added, d.lines_deleted).score
                /\ loc.has_agents_file =>
                       d.confidence_score
                           = Min(ScoreWithoutFile(d) + 1000, 10000)

\* C11 amended: every Detection of one analyze() call is scored with the
\* same has_agents_file value, found before the first commit is scored; when
\* an agent file was read, each Detection with at least one generic match is
\* scored 0.1 above its score in the same repository without the file (up
\* to the cap at 1.0; "generated by copilot" gives 0.55, medium), and a
\* Detection built from a tool match alone is scored 0.0 with and without
\* the file.
C11_AgentsBonusGenericDetections ==
    (mode = "walk" /\ pc \in {"fold", "returned"}) =>
        /\ world[an.repo_path].tree = <<file_agents>> => loc.has_agents_file
        /\ world[an.repo_path].tree = <<>> => ~loc.has_agents_file
        /\ \A k \in 1..Len(loc.detections) :
               LET d == loc.detections[k]
               IN  /\ d.confidence_score =
                          calculate_confidence_score(
                              d.patterns_matched, d.tools_detected,
                              loc.has_agents_file,
                              d.lines_added, d.lines_deleted).score
                   /\ (loc.has_agents_file /\ d.patterns_matched # <<>>) =>
                          d.confidence_score
                              = Min(ScoreWithoutFile(d) + 1000, 10000)
                   /\ d.patterns_matched = <<>> =>
                          /\ d.confidence_score = 0
                          /\ ScoreWithoutFile(d) = 0
                   /\ (/\ loc.has_agents_file
                       /\ d.message = msg_copilot
                       /\ ~large_addition(d.lines_added, d.lines_deleted))
                          => /\ ScoreWithoutFile(d) = 4500
                             /\ d.confidence_score = 5500
                             /\ d.confidence_level = "medium"

C11_Witness ==
    /\ Returned
    /\ loc.has_agents_file
    /\ Len(result[1].detections) = 2
    /\ result[1].detections[1].message = msg_copilot
    /\ result[1].detections[1].confidence_score = 5500
    /\ result[1].detections[2].message = msg_gpt4
    /\ result[1].detections[2].confidence_score = 0

\* C12: the tools_detected of a returned RepoAnalysis include every tool
\* mentioned in a discovered agent file, also when no commit mentions it.
C12_AgentFileToolsDetected ==
    Returned =>
        \A k \in 1..Len(result[1].agents_files) :
            Range(result[1].agents_files[k].tools_mentioned)
                \subseteq result[1].tools_detected

\* the commits of the walk so far that detect_ai_patterns matches
GenericHits ==
    {k \in 1..loc.total_commits : patterns_in[History[k].message] # <<>>}

\* C13 as stated: a commit that detect_ai_patterns does not match is never
\* flagged: it gets no Detection and is not counted in the AI commits of the
\* repository, of its author or of its month, even if extract_ai_tools finds
\* a tool.
C13_NoGenericHitNotFlagged ==
    (mode = "walk" /\ pc \in {"fold", "returned"}) =>
        /\ \A k \in 1..Len(loc.detections) :
               loc.detections[k].patterns_matched # <<>>
        /\ loc.ai_commits = Cardinality(GenericHits)
        /\ \A a \in {alice, bob} :
               DictGet(loc.ai_commits_by_author, a.name, 0)
                   = Cardinality({k \in GenericHits :
                                     History[k].author.name = a.name})
        /\ \A m \in {dec_2023, jan_2024} :
               DictGet(loc.timeline, strftime_Ym(m), NewMonth).ai
                   = Cardinality({k \in GenericHits : History[k].date = m})

\* the commits of the walk so far that either scanner matches
ScannerHits ==
    {k \in 1..loc.total_commits :
        \/ patterns_in[History[k].message] # <<>>
        \/ tools_in[History[k].message] # <<>>}

\* C13 amended: a commit that detect_ai_patterns does not match is scored
\* (0.0, none); analyze() flags it exactly when extract_ai_tools finds a
\* tool, with a Detection of score 0.0 and level none that is counted in the
\* AI commits of the repository, of its author and of its month; a commit
\* that neither scanner matches is never flagged.
C13_ToolOnlyFlaggedAtZero ==
    (mode = "walk" /\ pc \in {"fold", "returned"}) =>
        /\ \A k \in 1..Len(loc.detections) :
               LET d == loc.detections[k]
               IN  /\ d.patterns_matched # <<>> \/ d.tools_detected # <<>>
                   /\ d.patterns_matched = <<>> =>
                          /\ d.confidence_score = 0
                          /\ d.confidence_level = "none"
        /\ Len(loc.detections) = Cardinality(ScannerHits)
        /\ loc.ai_commits = Cardinality(ScannerHits)
        /\ \A a \in {alice, bob} :
               DictGet(loc.ai_commits_by_author, a.name, 0)
                   = Cardinality({k \in ScannerHits :
                                     History[k].author.name = a.name})
        /\ \A m \in {dec_2023, jan_2024} :
               DictGet(loc.timeline, strftime_Ym(m), NewMonth).ai
                   = Cardinality({k \in ScannerHits : History[k].date = m})

C13_Witness ==
    /\ Returned
    /\ Len(History) = 2
    /\ History[1].message = msg_gpt4
    /\ History[2].message = msg_plain
    /\ result[1].ai_assisted_commits = 1
    /\ Len(result[1].detections) = 1
    /\ result[1].detections[1].patterns_matched = <<>>
    /\ result[1].detections[1].tools_detected = <<"ChatGPT">>
    /\ result[1].detections[1].confidence_level = "none"

\* the weight of the low-confidence category an entry of the match list
\* belongs to, 0 when it belongs to none
CategoryWeight(pattern) ==
    LET hits == {k \in 1..Len(GENERIC_AI_PATTERNS) :
                    Contains(GENERIC_AI_PATTERNS[k].patterns, pattern)}
    IN  IF hits = {} THEN 0
        ELSE GENERIC_AI_PATTERNS[CHOOSE k \in hits : TRUE].weight

\* C14: every entry of the match list of detect_ai_patterns that is one of
\* the five low-confidence categories adds that category's weight x 0.3 to
\* the score; a commit matched only by "ai-generated", with no tool, no agent
\* file and a small diff, is scored 0.15 with level low.
C14_GenericWeightAdded ==
    mode = "walk" =>
        \A k \in 1..Len(loc.detections) :
            LET d == loc.detections[k]
                generic ==
                    SumSeq([j \in 1..Len(d.patterns_matched) |->
                               (CategoryWeight(d.patterns_matched[j]) * 3)
                                   \div 10])
            IN  /\ d.patterns_matched # <<>> =>
                       d.confidence_score
                           = Min(tools_score(d.tools_detected) + generic
                                   + agents_bonus(loc.has_agents_file)
                                   + size_bonus(d.lines_added,
                                                d.lines_deleted), 10000)
                /\ (/\ d.patterns_matched = <<rx_ai_generated>>
                    /\ d.tools_detected = <<>>
                    /\ ~loc.has_agents_file
                    /\ ~large_addition(d.lines_added, d.lines_deleted))
                       => /\ d.confidence_score = 1500
                          /\ d.confidence_level = "low"

\* the names that commit in the repositories analyzed
BatchAuthors(repos) ==
    UNION {AuthorsOf(world[repos[k].repo_path].history) : k \in 1..Len(repos)}

\* the names with at least one flagged commit in some repository analyzed
BatchAiAuthors(repos) ==
    UNION {{h[j].author.name :
               j \in {n \in 1..Len(h) :
                         is_ai_commit(patterns_in[h[n].message],
                                      tools_in[h[n].message])}}
           : h \in {world[repos[k].repo_path].history : k \in 1..Len(repos)}}

\* C15: the MultiRepoAnalysis sums the repositories' total_commits and
\* ai_assisted_commits, unites their tools_detected, and counts each author
\* name once across repositories, for all authors and for the authors with a
\* flagged commit; so ai_authors <= all_authors and
\* total_ai_commits <= total_commits.
C15_BatchAggregates ==
    bpc = "done" =>
        LET m == multi[1]
            rs == m.repos
        IN  /\ m.total_commits
                   = SumSeq([k \in 1..Len(rs) |-> rs[k].total_commits])
            /\ m.total_commits
                   = SumSeq([k \in 1..Len(rs) |->
                                Len(world[rs[k].repo_path].history)])
            /\ m.total_ai_commits
                   = SumSeq([k \in 1..Len(rs) |-> rs[k].ai_assisted_commits])
            /\ m.all_tools_detected
                   = UNION {rs[k].tools_detected : k \in 1..Len(rs)}
            /\ m.all_authors = Cardinality(BatchAuthors(rs))
            /\ m.ai_authors = Cardinality(BatchAiAuthors(rs))
            /\ m.ai_authors <= m.all_authors
            /\ m.total_ai_commits <= m.total_commits

C15_Witness ==
    /\ bpc = "done"
    /\ Len(multi[1].repos) = 2
    /\ multi[1].repos[1].repo_path = url_app
    /\ multi[1].repos[2].repo_path = url_lib
    /\ multi[1].repos[1].total_authors + multi[1].repos[2].total_authors = 3
    /\ multi[1].all_authors = 2
    /\ multi[1].ai_authors = 2
    /\ multi[1].total_commits = 3
    /\ multi[1].total_ai_commits = 2

\* C16: a requested branch whose checkout fails raises nothing: the step
\* that selects the branch goes on to the commit loop; the walk is over the
\* commits of the branch HEAD was on, and the returned branch field names
\* that branch, or "HEAD" when HEAD is detached, not the requested name.
C16_CheckoutFailureIgnored ==
    /\ [][(pc = "prepare" /\ loc' # loc)
              => /\ pc' = "fold"
                 /\ error' = ""
                 /\ (an.branch \notin DOMAIN world[an.repo_path].branches
                        \/ world' = world)
                       => /\ loc'.iter = world[an.repo_path].history
                          /\ loc'.current_branch
                                 = IF world[an.repo_path].active = ""
                                     THEN "HEAD"
                                     ELSE world[an.repo_path].active]_vars
    /\ [](Returned =>
            /\ result[1].branch
                   = IF world[an.repo_path].active = "" THEN "HEAD"
                     ELSE world[an.repo_path].active
            /\ result[1].total_commits = Len(History)
            /\ (/\ an.branch # "None"
                /\ an.branch \notin DOMAIN world[an.repo_path].branches)
                   => result[1].branch # an.branch)

C16_Witness ==
    /\ Returned
    /\ an.branch = "gone"
    /\ world[an.repo_path].active = "dev"
    /\ result[1].branch = "dev"
    /\ result[1].total_commits = 2

\* the requests a finished or running _paginate has sent
Sent == gh.requests

\* the number of items of the collection that is listed
Served == Len(gh.remote[gh.collection])

\* C17: _paginate asks for pages 1, 2, 3, ... in order with per_page = 100,
\* sends nothing after the first page that is empty or shorter than 100,
\* returns the items of the pages fetched in their order, and terminates;
\* a collection of 100k items costs k + 1 requests.
C17_PaginateStopsAtShortPage ==
    /\ [](mode = "org" =>
            /\ \A k \in 1..Len(Sent) :
                   /\ Sent[k].page = k
                   /\ Sent[k].per_page = 100
                   /\ Sent[k].endpoint = gh.endpoint
            /\ \A k \in 1..(Len(Sent) - 1) :
                   /\ Sent[k].status = 200
                   /\ Len(page_of(gh.remote[gh.collection], k)) = 100
            /\ gh.pc = "paging" => gh.results
                   = SubSeq(gh.remote[gh.collection], 1,
                            Min(100 * Len(Sent), Served))
            /\ gh.pc \in {"listed", "analyzing"} =>
                   /\ Len(Sent) = (Served \div 100) + 1
                   /\ Len(page_of(gh.remote[gh.collection], Len(Sent))) < 100
                   /\ gh.results = gh.remote[gh.collection]
                   /\ Len(gh.value[1]) = Served
                   /\ \A k \in 1..Served :
                          gh.value[1][k].name
                              = gh.remote[gh.collection][k].name)
    /\ (gh.pc = "paging") ~> (gh.pc \in {"listed", "raised"})

C17_Witness ==
    /\ gh.pc = "listed"
    /\ Served = 200
    /\ Len(Sent) = 3
    /\ Len(gh.value[1]) = 200

\* C18: _request raises a different error for 401, for 403, for 404 and for
\* every other status that is not 200; only 200 returns data; an error on
\* any page makes the listing raise and return nothing.
C18_DistinctApiErrors ==
    (mode = "org" /\ Sent # <<>>) =>
        LET status == Sent[Len(Sent)].status
            InvalidToken ==
                <<"Invalid GitHub token. Please check your token and try again.">>
            Forbidden ==
                <<"Access forbidden. Token may lack required scopes or org access.">>
            NotFound == <<"Resource not found: ", gh.endpoint>>
        IN  /\ gh.error = InvalidToken <=> status = 401
            /\ gh.error = Forbidden <=> status = 403
            /\ gh.error = NotFound <=> status = 404
            /\ (gh.error # <<>> /\ Head(gh.error) = "GitHub API error: ")
                   <=> status \notin {200, 401, 403, 404}
            /\ status # 200 => /\ gh.pc = "raised"
                               /\ gh.error # <<>>
                               /\ gh.value = <<>>
                               /\ bpc = "off"
            /\ gh.value # <<>> => \A k \in 1..Len(Sent) : Sent[k].status = 200

C18_Witness ==
    /\ gh.pc = "raised"
    /\ Len(Sent) = 2
    /\ Sent[1].status = 200
    /\ Sent[2].status = 403
    /\ gh.value = <<>>

\* C19: when the listing of analyze_team or analyze_org raises, for a missing
\* organization name or an API error on any page, the error is the outcome
\* of the call: no walk is started, no progress callback is made and no
\* MultiRepoAnalysis is returned; without an organization name nothing is
\* requested.
C19_ListingFailureFatal ==
    /\ (mode = "org" /\ gh.pc = "raised") =>
          /\ gh.error # <<>>
          /\ bpc = "off"
          /\ br = NoBatch
          /\ multi = <<>>
          /\ pc = "idle" /\ calls = 0 /\ made = 0 /\ fs = {}
    /\ (mode = "org" /\ gh.org \in {"None", ""} /\ gh.pc # "idle") =>
          /\ gh.pc = "raised"
          /\ Sent = <<>>
    /\ (mode = "org" /\ bpc # "off") =>
          /\ gh.pc = "analyzing"
          /\ \A k \in 1..Len(Sent) : Sent[k].status = 200

C19_Witness ==
    /\ gh.entry = "analyze_org"
    /\ gh.pc = "raised"
    /\ Len(Sent) = 2
    /\ Sent[2].status = 500
    /\ multi = <<>>
    /\ br.progress = <<>>

\* the position of a tool in the catalog, 0 when it is not in it
CatalogIndex(tool) ==
    IF tool \in ToolNames
      THEN CHOOSE k \in 1..Len(TOOL_PATTERNS) : TOOL_PATTERNS[k].name = tool
      ELSE 0

\* canonical names, in catalog order, none twice
CanonicalOrdered(tools) ==
    /\ \A k \in 1..Len(tools) : tools[k] \in ToolNames
    /\ \A j, k \in 1..Len(tools) :
           j < k => CatalogIndex(tools[j]) < CatalogIndex(tools[k])

DistinctKeys(d) == \A j, k \in 1..Len(d) : d[j].key = d[k].key => j = k

\* C20: extract_ai_tools returns canonical tool names in catalog order, a
\* tool exactly when one of its expressions matches the lower-cased text,
\* none twice; so the tool names of a RepoAnalysis (tools_detected, each
\* tools_used, the ToolStats names, the timeline tool keys, each Detection's
\* tools) are canonical and without duplicates.
C20_CanonicalToolsOnce ==
    /\ mode = "scan" =>
          /\ CanonicalOrdered(scan.tools)
          /\ \A k \in 1..Len(TOOL_PATTERNS) :
                 Contains(scan.tools, TOOL_PATTERNS[k].name)
                     <=> \E j \in 1..Len(TOOL_PATTERNS[k].patterns) :
                            re_search(TOOL_PATTERNS[k].patterns[j],
                                      lower(scan.text))
    /\ \A k \in 1..Len(loc.detections) :
           CanonicalOrdered(loc.detections[k].tools_detected)
    /\ Returned =>
          LET r == result[1]
          IN  /\ r.tools_detected \subseteq ToolNames
              /\ \A k \in 1..Len(r.author_stats) :
                     r.author_stats[k].tools_used \subseteq ToolNames
              /\ \A s \in r.tool_stats : s.name \in ToolNames
              /\ \A s1, s2 \in r.tool_stats : s1.name = s2.name => s1 = s2
              /\ \A k \in 1..Len(r.timeline) :
                     /\ DistinctKeys(r.timeline[k].tools)
                     /\ \A j \in 1..Len(r.timeline[k].tools) :
                            r.timeline[k].tools[j].key \in ToolNames

C20_Witness ==
    /\ mode = "scan"
    /\ scan.text = word_claude \o word_Anthropic \o word_Copilot
    /\ scan.tools = <<"GitHub Copilot", "Claude">>


\* the candidate files of the repository that lie outside the .git directory:
\* an agent-file name in any case, readable, no directory on the way named
\* .git
AgentFilesOutsideGit ==
    LET tree == world[an.repo_path].tree
    IN  {k \in 1..Len(tree) :
            /\ lower(tree[k].name) \in AgentsFileNames
            /\ tree[k].readable
            /\ dot_git \notin Range(tree[k].dirs)}

\* C21: when analyze() has returned, every readable file named agents.md,
\* agent.md or .agents.md (in any case) that lies outside the .git directory
\* is reported in agents_files, also in .github/ and in a working tree under
\* my.github.io/, and has_agents_file is true when there is one.
C21_AgentsFilesOutsideGitFound ==
    Returned =>
        LET tree == world[an.repo_path].tree
        IN  /\ \A k \in AgentFilesOutsideGit :
                  \E j \in 1..Len(result[1].agents_files) :
                      result[1].agents_files[j].path
                          = <<tree[k].root, tree[k].name>>
            /\ AgentFilesOutsideGit # {} => loc.has_agents_file

\* the host of a URL: the netloc without user-info and port
hostname(url) ==
    LET netloc == urlparse(url).netloc
        at == IF "@" \in Range(netloc)
                THEN CHOOSE k \in 1..Len(netloc) :
                         /\ netloc[k] = "@"
                         /\ \A j \in (k + 1)..Len(netloc) : netloc[j] # "@"
                ELSE 0
        host == SubSeq(netloc, at + 1, Len(netloc))
    IN  lower(SubSeq(host, 1, FirstOf(host, {":"}) - 1))

\* the URL with the token as its user-info component
UrlWithToken(url, github_token) ==
    LET parsed == urlparse(url)
    IN  parsed.scheme \o <<":", "/", "/">> \o TokenText[github_token]
            \o <<"@">> \o parsed.netloc \o parsed.path

\* C22: every URL handed to Repo.clone_from carries the token only when a
\* token was supplied, the scheme is https and the host is github.com; for
\* every other URL (git@, ssh://, plain http, another host with the text
\* github.com in its host or path) the URL is passed unchanged.
C22_TokenOnlyHttpsGithubHost ==
    mode = "walk" =>
        \A k \in 1..Len(cloned) :
            cloned[k] =
                IF /\ an.github_token \notin {"None", ""}
                   /\ urlparse(an.repo_path).scheme = <<"h","t","t","p","s">>
                   /\ hostname(an.repo_path) = str_github_com
                  THEN UrlWithToken(an.repo_path, an.github_token)
                  ELSE an.repo_path

\* pct is round(ai / total * 100, 2), 0 when total is 0, and within [0, 100]
PercentageOf(ai, total, pct) ==
    /\ pct = (IF total = 0 THEN 0 ELSE RoundDiv(ai * 10000, total))
    /\ pct >= 0
    /\ pct <= 10000

PercentagesOf(r) ==
    /\ PercentageOf(r.ai_assisted_commits, r.total_commits, r.ai_percentage)
    /\ \A k \in 1..Len(r.author_stats) :
           PercentageOf(r.author_stats[k].ai_assisted_commits,
                        r.author_stats[k].total_commits,
                        r.author_stats[k].ai_percentage)
    /\ \A k \in 1..Len(r.timeline) :
           PercentageOf(r.timeline[k].ai_commits, r.timeline[k].total_commits,
                        r.timeline[k].ai_percentage)

\* C23: every ai_percentage of a returned RepoAnalysis (its own, its
\* AuthorStats', its TimelineEntries') and the overall_ai_percentage of a
\* returned MultiRepoAnalysis is round(ai / total * 100, 2) of the counts of
\* the same record, is 0 when the total is 0, and lies between 0 and 100.
C23_PercentagesRounded ==
    /\ Returned => PercentagesOf(result[1])
    /\ \A k \in 1..Len(br.results) : PercentagesOf(br.results[k])
    /\ multi # <<>> =>
           /\ \A k \in 1..Len(multi[1].repos) : PercentagesOf(multi[1].repos[k])
           /\ PercentageOf(multi[1].total_ai_commits, multi[1].total_commits,
                           multi[1].overall_ai_percentage)

\* a batch of an empty repository and one with one AI commit out of two
C23_Witness ==
    /\ multi # <<>>
    /\ multi[1].total_repos = 2
    /\ multi[1].repos[1].total_commits = 0
    /\ multi[1].repos[1].ai_percentage = 0
    /\ multi[1].repos[2].total_commits = 2
    /\ multi[1].repos[2].ai_percentage = 5000
    /\ multi[1].overall_ai_percentage = 5000

\* does either scanner match the message of the commit
HasMatch(commit) ==
    patterns_in[commit.message] # <<>> \/ tools_in[commit.message] # <<>>

\* the commits iterated so far that have a match, in iteration order
MatchedSoFar == SelectSeq(SubSeq(History, 1, loc.total_commits), HasMatch)

\* C24: during and after the commit loop there is exactly one Detection for
\* each commit iterated so far whose message has a generic match or a tool
\* match, and none for any other commit; the Detections are in iteration
\* order, each carries the scanners' results for its commit, and
\* len(detections) = ai_assisted_commits <= total_commits, also in the
\* returned RepoAnalysis.
C24_DetectionPerMatchedCommit ==
    (mode = "walk" /\ pc \in {"fold", "returned"}) =>
        /\ Len(loc.detections) = Len(MatchedSoFar)
        /\ \A k \in 1..Len(MatchedSoFar) :
               LET d == loc.detections[k]
                   commit == MatchedSoFar[k]
               IN  /\ d.author = commit.author.name
                   /\ d.date = commit.date
                   /\ d.message = commit.message
                   /\ d.patterns_matched = patterns_in[commit.message]
                   /\ d.tools_detected = tools_in[commit.message]
        /\ loc.ai_commits = Len(loc.detections)
        /\ loc.ai_commits <= loc.total_commits
        /\ Returned =>
               /\ result[1].detections = loc.detections
               /\ result[1].ai_assisted_commits = Len(result[1].detections)
               /\ result[1].ai_assisted_commits <= result[1].total_commits
               /\ result[1].total_commits = Len(History)

\* a tool-only commit, then a generic-only commit: two Detections in that
\* order
C24_Witness ==
    /\ Returned
    /\ Len(History) = 2
    /\ History[1].message = msg_gpt4
    /\ History[2].message = msg_ai_generated
    /\ Len(result[1].detections) = 2
    /\ result[1].detections[1].tools_detected = <<"ChatGPT">>
    /\ result[1].detections[1].patterns_matched = <<>>
    /\ result[1].detections[2].tools_detected = <<>>
    /\ result[1].detections[2].patterns_matched # <<>>

\* the progress calls that analyze_repos has made when it is at this point:
\* one for each repository attempted or under way, one more at the end
CallbacksDue ==
    CASE bpc = "loop" -> br.i
      [] bpc = "walking" -> br.i + 1
      [] bpc = "done" -> Len(br.repos) + 1
      [] OTHER -> 0

\* C25: with a callback and N repositories, analyze_repos calls the callback
\* once before each repository, in list order, with (i, N, name of the i-th
\* repository) where i counts the repositories already attempted, whether
\* their walk returned or raised, and once at the end with (N, N,
\* "Complete"): N + 1 calls, the first argument rising by one from 0 to N.
C25_ProgressCallbacks ==
    (mode = "batch" /\ br.callback) =>
        LET N == Len(br.repos)
        IN  /\ Len(br.progress) = CallbacksDue
            /\ br.i = Len(br.results) + Len(br.printed)
            /\ \A k \in 1..Len(br.progress) :
                   /\ br.progress[k][1] = k - 1
                   /\ br.progress[k][1] <= br.progress[k][2]
                   /\ br.progress[k][2] = N
                   /\ br.progress[k][3]
                          = (IF k <= N THEN br.repos[k].name ELSE "Complete")
            /\ bpc = "done" =>
                   /\ Len(br.progress) = N + 1
                   /\ br.progress[N + 1] = <<N, N, "Complete">>

\* three repositories, the walk of the second one failed
C25_Witness ==
    /\ mode = "batch"
    /\ bpc = "done"
    /\ Len(br.repos) = 3
    /\ Len(br.results) = 2
    /\ Len(br.printed) = 1
    /\ br.printed[1][1] = br.repos[2].name
    /\ Len(br.progress) = 4
    /\ br.progress[3] = <<2, 3, br.repos[3].name>>
    /\ br.progress[4] = <<3, 3, "Complete">>

\* the analyze() calls that analyze_repos has started
WalksStarted == br.i + (IF bpc = "walking" /\ calls > 0 THEN 1 ELSE 0)

\* C26: nothing is retried: each analyze() call makes one clone attempt, a
\* failed clone ends the call with the error "Failed to clone repository",
\* and analyze_repos starts one walk for each entry of the list, in list
\* order, so the k-th clone is the clone of the k-th entry and a repository
\* whose walk failed is not taken again.
C26_NoRetry ==
    mode = "batch" =>
        /\ calls <= 1
        /\ Len(cloned) = WalksStarted
        /\ made = Len(cloned)
        /\ \A k \in 1..Len(cloned) :
               cloned[k] = _clone_url(br.repos[k].clone_url, api_token)
        /\ Len(br.results) + Len(br.printed) = br.i
        /\ (bpc = "walking" /\ pc = "raised" /\ an.repo = "None"
               /\ an.temp_dir \notin fs) =>
               error = "Failed to clone repository"
        /\ bpc = "done" => br.i = Len(br.repos)

\* two entries, the clone of the first failed: two clones, one result
C26_Witness ==
    /\ mode = "batch"
    /\ bpc = "done"
    /\ Len(br.repos) = 2
    /\ Len(cloned) = 2
    /\ Len(br.printed) = 1
    /\ br.printed[1] = <<br.repos[1].name, "Failed to clone repository">>
    /\ Len(br.results) = 1
    /\ br.results[1].repo_path = br.repos[2].clone_url

\* C27: calculate_confidence_score is stable under reordering: a call with
\* two neighbouring entries of patterns_matched or of tools_detected
\* exchanged, and so with any permutation of the two lists, returns the same
\* (score, level) as the call before.
C27_StableUnderReordering ==
    [][mode = "order" => fout' = fout]_vars

\* the Detections of a RepoAnalysis at one confidence level
AtLevel(r, level) ==
    {k \in 1..Len(r.detections) : r.detections[k].confidence_level = level}

SumOfScores(r) ==
    SumSeq([k \in 1..Len(r.detections) |-> r.detections[k].confidence_score])

\* the three counters of a RepoAnalysis count the Detections of their level;
\* their sum is the number of Detections of a level other than none, at most
\* ai_assisted_commits and less when a flagged commit scored 0
BucketsCount(r) ==
    /\ r.high_confidence_count = Cardinality(AtLevel(r, "high"))
    /\ r.medium_confidence_count = Cardinality(AtLevel(r, "medium"))
    /\ r.low_confidence_count = Cardinality(AtLevel(r, "low"))
    /\ r.high_confidence_count + r.medium_confidence_count
           + r.low_confidence_count
           = Len(r.detections) - Cardinality(AtLevel(r, "none"))
    /\ r.high_confidence_count + r.medium_confidence_count
           + r.low_confidence_count <= r.ai_assisted_commits
    /\ (\E k \in 1..Len(r.detections) : r.detections[k].confidence_score = 0)
           => r.high_confidence_count + r.medium_confidence_count
                  + r.low_confidence_count < r.ai_assisted_commits
    /\ r.average_confidence >= 0
    /\ r.average_confidence <= 10000
    /\ r.ai_assisted_commits = 0 => r.average_confidence = 0

\* C28 as stated: the counters count the Detections by level, and
\* average_confidence is the sum of the Detection scores divided by
\* ai_assisted_commits.
C28_BucketsAndAverage ==
    Returned =>
        /\ BucketsCount(result[1])
        /\ result[1].average_confidence * result[1].ai_assisted_commits
               = SumOfScores(result[1])

\* the distance of a from b
Distance(a, b) == IF a >= b THEN a - b ELSE b - a

\* C28 amended: the counters count the Detections by level, and
\* average_confidence is the sum of the Detection scores divided by
\* ai_assisted_commits and rounded to three decimals: a multiple of 0.001
\* that lies no further than 0.0005 from the quotient (0 without Detections).
C28_BucketsAndRoundedAverage ==
    Returned =>
        /\ BucketsCount(result[1])
        /\ result[1].average_confidence % 10 = 0
        /\ Distance(result[1].average_confidence
                        * result[1].ai_assisted_commits,
                    SumOfScores(result[1]))
               <= 5 * result[1].ai_assisted_commits

\* Detections at 0.55 (medium), 1.0 (high) and 0.0 (none): two counted, and
\* an average of 0.517 for 1.55 / 3
C28_Witness ==
    /\ Returned
    /\ Len(result[1].detections) = 3
    /\ result[1].detections[1].confidence_score = 5500
    /\ result[1].detections[2].confidence_score = 10000
    /\ result[1].detections[3].confidence_level = "none"
    /\ result[1].high_confidence_count = 1
    /\ result[1].medium_confidence_count = 1
    /\ result[1].low_confidence_count = 0
    /\ result[1].ai_assisted_commits = 3
    /\ result[1].average_confidence = 5170

\* C29: on one GitAnalyzer with a remote repo_path, after any sequence of
\* analyze() and cleanup() calls, every temporary directory that exists is
\* the one _temp_dir refers to, so that one cleanup() removes them all.
C29_NoOrphanTempDir ==
    mode = "walk" => fs \subseteq {an.temp_dir}

\* the Detections of a RepoAnalysis whose tools_detected contains the tool
DetectionsWith(r, tool) ==
    {k \in 1..Len(r.detections) :
        tool \in Range(r.detections[k].tools_detected)}

AuthorsWith(r, tool) ==
    {r.detections[k].author : k \in DetectionsWith(r, tool)}

\* C30: a returned RepoAnalysis has exactly one ToolStats for each tool of
\* tools_detected and none for another tool; its commit_count is the number
\* of Detections with the tool (at least 1), its author_count the number of
\* distinct authors of these Detections (between 1 and commit_count), its
\* first_seen and last_seen the earliest and latest of their dates, and the
\* tool is in tools_used of exactly these authors.
C30_ToolStatsRollup ==
    Returned =>
        LET r == result[1]
        IN  /\ {s.name : s \in r.tool_stats} = r.tools_detected
            /\ Cardinality(r.tool_stats) = Cardinality(r.tools_detected)
            /\ r.tools_detected
                   = UNION {Range(r.detections[k].tools_detected) :
                               k \in 1..Len(r.detections)}
            /\ \A s \in r.tool_stats :
                   LET with == DetectionsWith(r, s.name)
                   IN  /\ s.commit_count = Cardinality(with)
                       /\ s.commit_count >= 1
                       /\ s.author_count = Cardinality(AuthorsWith(r, s.name))
                       /\ s.author_count >= 1
                       /\ s.author_count <= s.commit_count
                       /\ Len(s.first_seen) = 1 /\ Len(s.last_seen) = 1
                       /\ \E k \in with : r.detections[k].date = s.first_seen[1]
                       /\ \E k \in with : r.detections[k].date = s.last_seen[1]
                       /\ \A k \in with :
                              /\ DateLE(s.first_seen[1], r.detections[k].date)
                              /\ DateLE(r.detections[k].date, s.last_seen[1])
                       /\ DateLE(s.first_seen[1], s.last_seen[1])
            /\ \A k \in 1..Len(r.author_stats) :
                   r.author_stats[k].tools_used
                       = {tool \in r.tools_detected :
                             r.author_stats[k].name \in AuthorsWith(r, tool)}

\* alice used three tools in January 2024 and Copilot in December 2023,
\* bob no tool
C30_Witness ==
    /\ Returned
    /\ Len(History) = 2
    /\ History[1].message = msg_three_tools
    /\ History[1].date = jan_2024
    /\ History[2].message = msg_copilot
    /\ History[2].date = dec_2023
    /\ Cardinality(result[1].tool_stats) = 3
    /\ [name |-> "GitHub Copilot", commit_count |-> 2, author_count |-> 1,
        first_seen |-> <<dec_2023>>, last_seen |-> <<jan_2024>>]
           \in result[1].tool_stats
    /\ [name |-> "Cursor", commit_count |-> 1, author_count |-> 1,
        first_seen |-> <<jan_2024>>, last_seen |-> <<jan_2024>>]
           \in result[1].tool_stats

=========================================================================
